---- MODULE Spec2Model ----
(***************************************************************************)
(* Offset/identifier consistency and index resolution of docarray:         *)
(*   - the Elastic storage backend (extend, __len__),                      *)
(*   - the Qdrant storage backend (get/set/delete by id, by offset, scan), *)
(*   - the advanced __setitem__ index resolver (SetItemMixin).             *)
(* Each part is a state machine of its own (SpecElastic, SpecQdrant,       *)
(* SpecSetItem, SpecSetPair, SpecSetAttr) over the variables it owns; the  *)
(* other variables are left unchanged by it.                               *)
(***************************************************************************)
EXTENDS Integers, Sequences, FiniteSets, TLC

VARIABLES
    backend,         \* the storage backend the collection was constructed with
    es_index,        \* Elastic: every document written to the index, _id -> _source
    es_searchable,   \* Elastic: the index as of its last refresh (what count sees)
    es_offset2ids,   \* Elastic: self._offset2ids.ids
    es_bulk_failed,  \* Elastic: some bulk write of this run has raised
    es_last,         \* Elastic: the last extend call (arguments, outcome)
    q_points,        \* Qdrant: the points of the collection, id -> point
    q_last,          \* Qdrant: the last call (arguments, outcome)
    q_scan_pc,       \* Qdrant: the scan generator: "idle", "running" or "done"
    q_scan_offset,   \* Qdrant: scan's local variable offset
    q_scan_out,      \* Qdrant: the documents scan has yielded so far
    q_scan_prev,     \* Qdrant: what the scan before this one yielded, if still comparable
    da_ids,          \* collection: the Offset2ID table
    da_docs,         \* collection: the stored documents, id -> document
    da_last,         \* collection: the last da[index] = value (arguments, outcome)
    da_before,       \* collection: [ids, docs] before that call
    em_ids,          \* Elastic: self._offset2ids.ids of the collection that persists it
    em_meta,         \* Elastic: the offset2id index, _id (an offset) -> blob
    em_count,        \* Elastic: the documents of that index as of its last refresh
    em_sync,         \* Elastic: "dirty", "persisted" or "refreshed" (after a persist)
    em_last,         \* Elastic: the last call on the offset2id index (outcome)
    r_config,        \* Redis: self._config, what of it the calls read
    r_docs,          \* Redis: the keys that hold a document's payload
    r_last,          \* Redis: the last call of GetSetDelMixin (input, outcome)
    r_list,          \* Redis: the list under self._offset2id_key, if that key exists
    r_offset2ids,    \* Redis: self._offset2ids.ids
    c_store,         \* array column: the backend, id -> stored document
    c_docs,          \* array column: _docs, the selected documents as fetched
    c_pc,            \* array column: where da[sel, attr] = vals stands
    c_log,           \* array column: the ids re-persisted by the call, in order
    c_call,          \* array column: [index, attr, value, raised] of the call
    ec_config,       \* Elastic instances: config object -> its index_name
    ec_inst,         \* Elastic instances: instance -> [state, config, own, attrs]
    ec_index,        \* Elastic instances: index name -> count of its documents
    ec_registry,     \* Elastic instances: the registered instances
    ec_last,         \* Elastic instances: the last call and what held before it
    r_saved,         \* Redis: the table as it was at the last _save_offset2ids
    rm_last          \* Redis: the last call on the table

es_vars == <<es_index, es_searchable, es_offset2ids, es_bulk_failed, es_last>>
q_scan_vars == <<q_scan_pc, q_scan_offset, q_scan_out, q_scan_prev>>
q_vars == <<q_points, q_last, q_scan_vars>>

da_vars == <<da_ids, da_docs, da_last, da_before>>

em_vars == <<em_ids, em_meta, em_count, em_sync, em_last>>

\* the variables of the parts added to the first four
r_doc_vars == <<r_docs, r_last>>
r_meta_vars == <<r_list, r_offset2ids, r_saved, rm_last>>
r_vars == <<r_config, r_doc_vars, r_meta_vars>>
c_vars == <<c_store, c_docs, c_pc, c_log, c_call>>
ec_vars == <<ec_config, ec_inst, ec_index, ec_registry, ec_last>>
x_vars == <<c_vars, ec_vars>>
ext_vars == <<em_vars, r_vars, x_vars>>

vars == <<backend, es_vars, q_vars, da_vars, ext_vars>>

\* Python's None
None == "None"

(***************************************************************************)
(* Helpers on sequences                                                    *)
(***************************************************************************)
Range(s) == {s[i] : i \in 1..Len(s)}

NoDuplicates(s) == \A i, j \in 1..Len(s) : i # j => s[i] # s[j]

\* all sequences over S of length 0..n
SeqsUpTo(S, n) == UNION {[1..k -> S] : k \in 0..n}

\* the first k elements of s
Prefix(s, k) == SubSeq(s, 1, k)

(***************************************************************************)
(* Elastic backend                                                         *)
(***************************************************************************)
MaxExtend == 2      \* documents passed to one extend call
MaxTable == 4       \* length of the Offset2ID table

EsIds == {"a", "b"}
EsEmbeddings == {None, "zero", "vec"}
EsDocuments == [id : EsIds, embedding : EsEmbeddings]

\* _map_embedding: None becomes a random vector, an all-zero vector is
\* shifted by EPSILON, anything else is kept (as a list of floats).
map_embedding(embedding) ==
    IF embedding = None THEN "rand"
    ELSE IF embedding = "zero" THEN "zero_plus_eps"
    ELSE embedding

\* Document.to_base64 / Document.from_base64: the serialized form of a
\* document is a blob that carries its fields.
es_to_base64(doc) == <<"b64", doc.id, doc.embedding>>
es_from_base64(blob) == [id |-> blob[2], embedding |-> blob[3]]

\* extend, lines 72-82: the embedding of each value is replaced in place,
\* and one "index" operation is requested per value.
EsMapped(values) ==
    [i \in 1..Len(values) |->
        [id |-> values[i].id, embedding |-> map_embedding(values[i].embedding)]]

EsRequest(values) ==
    [i \in 1..Len(values) |->
        [op_type |-> "index",
         id |-> values[i].id,
         embedding |-> EsMapped(values)[i].embedding,
         blob |-> es_to_base64(EsMapped(values)[i])]]

\* one "index" operation: creates the document, or replaces the one stored
\* under the same _id
EsIndexOp(index, r) ==
    [i \in (DOMAIN index) \cup {r.id} |->
        IF i = r.id THEN [embedding |-> r.embedding, blob |-> r.blob]
        ELSE index[i]]

\* elasticsearch.helpers.bulk: the operations are applied in order
RECURSIVE bulk(_, _)
bulk(index, request) ==
    IF request = <<>> THEN index
    ELSE bulk(EsIndexOp(index, Head(request)), Tail(request))

\* _send_requests
send_requests(index, request) == bulk(index, request)

\* extend, line 83: the id of every value is appended to the table
EsAppendIds(ids, values) == ids \o [i \in 1..Len(values) |-> values[i].id]

\* __len__: the count of the index, which sees what the last refresh saw
es_len == Cardinality(DOMAIN es_searchable)

EsEmptyIndex == [i \in {} |-> None]

EsStart ==
    /\ es_index = EsEmptyIndex
    /\ es_searchable = EsEmptyIndex
    /\ es_offset2ids = <<>>
    /\ es_bulk_failed = FALSE
    /\ es_last = [op |-> "init", ids |-> <<>>, ok |-> TRUE, from_empty |-> TRUE]

\* extend(values) that returns normally
EsExtend ==
    \E values \in SeqsUpTo(EsDocuments, MaxExtend) :
        /\ backend = "elastic"
        /\ Len(es_offset2ids) + Len(values) <= MaxTable
        /\ es_offset2ids' = EsAppendIds(es_offset2ids, values)
        /\ IF Len(EsRequest(values)) > 0
           THEN /\ es_index' = send_requests(es_index, EsRequest(values))
                /\ es_searchable' = es_index'       \* _refresh
           ELSE UNCHANGED <<es_index, es_searchable>>
        /\ es_last' = [op |-> "extend", ids |-> EsAppendIds(<<>>, values), ok |-> TRUE,
                       from_empty |-> (es_offset2ids = <<>> /\ es_index = EsEmptyIndex)]
        /\ UNCHANGED <<backend, es_bulk_failed, q_vars, da_vars, ext_vars>>

\* extend(values) in which the bulk write raises: the operations before the
\* failing one were applied, the refresh is not reached
EsExtendRaises ==
    \E values \in SeqsUpTo(EsDocuments, MaxExtend) :
        /\ backend = "elastic"
        /\ Len(values) > 0
        /\ Len(es_offset2ids) + Len(values) <= MaxTable
        /\ es_offset2ids' = EsAppendIds(es_offset2ids, values)
        /\ \E k \in 0..(Len(values) - 1) :
              es_index' = send_requests(es_index, Prefix(EsRequest(values), k))
        /\ es_bulk_failed' = TRUE
        /\ es_last' = [op |-> "extend", ids |-> EsAppendIds(<<>>, values), ok |-> FALSE,
                       from_empty |-> (es_offset2ids = <<>> /\ es_index = EsEmptyIndex)]
        /\ UNCHANGED <<backend, es_searchable, q_vars, da_vars, ext_vars>>

NextElastic == EsExtend \/ EsExtendRaises

(***************************************************************************)
(* Elastic backend: the Offset2ID table persisted in the offset2id index   *)
(***************************************************************************)
MaxMeta == 3        \* length of the Offset2ID table that is persisted

EmIds == {"a", "b"}

\* the blob of a request: f'{id_}', and the id read back from a blob
em_blob(id) == <<"str", id>>
em_id_of(blob) == blob[2]

\* _update_offset2ids_meta, lines 158-166: one "index" operation per
\* (offset, id) of enumerate(self._offset2ids.ids)
EmRequests(ids) ==
    [i \in 1..Len(ids) |-> [op_type |-> "index", id |-> i - 1, blob |-> em_blob(ids[i])]]

\* bulk on the offset2id index: each operation creates the document of its
\* _id or replaces it; no document is deleted
RECURSIVE em_bulk(_, _)
em_bulk(meta, requests) ==
    IF requests = <<>> THEN meta
    ELSE em_bulk([o \in (DOMAIN meta) \cup {Head(requests).id} |->
                     IF o = Head(requests).id THEN Head(requests).blob ELSE meta[o]],
                 Tail(requests))

\* _get_offset2ids_meta, lines 179-186: count sees the index as of its last
\* refresh, mget reads the documents as they are now; a document that is not
\* found has no '_source'
get_offset2ids_meta(meta, n_docs) ==
    IF n_docs # 0
    THEN IF \A o \in 0..(n_docs - 1) : o \in DOMAIN meta
         THEN [raised |-> "none", ids |-> [i \in 1..n_docs |-> em_id_of(meta[i - 1])]]
         ELSE [raised |-> "KeyError", ids |-> <<>>]
    ELSE [raised |-> "none", ids |-> <<>>]

EmEmptyIndex == [o \in {} |-> None]

\* _build_offset2id_index: the index is deleted and created
EmStart ==
    /\ em_ids = <<>>
    /\ em_meta = EmEmptyIndex
    /\ em_count = 0
    /\ em_sync = "dirty"
    /\ em_last = [op |-> "init", raised |-> "none", ids |-> <<>>]

\* extend, line 83: an id is appended to the table
EmAppend ==
    \E id \in EmIds :
        /\ backend = "elastic_meta"
        /\ Len(em_ids) < MaxMeta
        /\ em_ids' = EsAppendIds(em_ids, <<[id |-> id]>>)
        /\ em_sync' = "dirty"
        /\ em_last' = [op |-> "append", raised |-> "none", ids |-> <<>>]
        /\ UNCHANGED <<em_meta, em_count>>

\* the table's remove-at: the ids after the offset shift down
EmRemove ==
    \E k \in 1..Len(em_ids) :
        /\ backend = "elastic_meta"
        /\ em_ids' = [i \in 1..(Len(em_ids) - 1) |-> IF i < k THEN em_ids[i] ELSE em_ids[i + 1]]
        /\ em_sync' = "dirty"
        /\ em_last' = [op |-> "remove", raised |-> "none", ids |-> <<>>]
        /\ UNCHANGED <<em_meta, em_count>>

\* _update_offset2ids_meta (the index exists from construction on)
EmPersist ==
    /\ backend = "elastic_meta"
    /\ em_meta' = em_bulk(em_meta, EmRequests(em_ids))
    /\ em_sync' = "persisted"
    /\ em_last' = [op |-> "persist", raised |-> "none", ids |-> <<>>]
    /\ UNCHANGED <<em_ids, em_count>>

\* the index is refreshed (Elasticsearch does so periodically): what was
\* written becomes visible to count
EmRefresh ==
    /\ backend = "elastic_meta"
    /\ em_count # Cardinality(DOMAIN em_meta) \/ em_sync = "persisted"
    /\ em_count' = Cardinality(DOMAIN em_meta)
    /\ em_sync' = IF em_sync = "persisted" THEN "refreshed" ELSE em_sync
    /\ em_last' = [op |-> "refresh", raised |-> "none", ids |-> <<>>]
    /\ UNCHANGED <<em_ids, em_meta>>

\* _get_offset2ids_meta
EmLoad ==
    /\ backend = "elastic_meta"
    /\ em_last' = [op |-> "load",
                   raised |-> get_offset2ids_meta(em_meta, em_count).raised,
                   ids |-> get_offset2ids_meta(em_meta, em_count).ids]
    /\ UNCHANGED <<em_ids, em_meta, em_count, em_sync>>

NextElasticMeta ==
    /\ EmAppend \/ EmRemove \/ EmPersist \/ EmRefresh \/ EmLoad
    /\ UNCHANGED <<backend, es_vars, q_vars, da_vars, r_vars, x_vars>>

(***************************************************************************)
(* Redis backend: GetSetDelMixin and the persisted Offset2ID table         *)
(***************************************************************************)
MaxRedisTable == 2  \* length of the Offset2ID table of a Redis collection

RIds == {"a", "b"}
RTexts == {"x", "y"}
RDocuments == [id : RIds, text : RTexts]
RNoDoc == [id |-> None, text |-> None]

\* RedisConfig has no field key_prefix (key_prefix |-> None); _init_storage
\* keeps a config object that is not a dict as it is given, and such an
\* object may carry one.  redis_config is passed to Redis(...): the client
\* returns bytes unless it holds decode_responses=True.
RConfigs == [key_prefix : {None, "doc:"}, decode_responses : BOOLEAN]

\* a value as the Python side sees it, and what the server keeps of it
RStr(x) == <<"str", x>>
RBytes(x) == <<"bytes", x>>
r_encode(x) == RBytes(x[2])
r_response(cfg, b) == IF cfg.decode_responses THEN RStr(b[2]) ELSE b

\* self._config.key_prefix + _id
r_has_prefix(cfg) == cfg.key_prefix # None
r_key(cfg, id) == <<cfg.key_prefix, id>>

\* doc.to_base64() and its inverse
r_to_base64(doc) == <<"b64", doc.id, doc.text>>
r_from_base64(blob) == [id |-> blob[2], text |-> blob[3]]

\* _document_to_redis: doc.text is never empty here, so 'text' is set
document_to_redis(doc) ==
    [embedding |-> "zeros", blob |-> r_to_base64(doc), text |-> doc.text]

REmptyDocs == [k \in {} |-> None]

\* self._add(_id, payload): the payload is written under the key of _id
r_add(cfg, docs, id, payload) ==
    [k \in (DOMAIN docs) \cup {<<IF r_has_prefix(cfg) THEN cfg.key_prefix ELSE "", id>>} |->
        IF k[2] = id THEN payload ELSE docs[k]]

\* the key under which a collection of this configuration keeps document id
r_doc_key(cfg, id) == <<IF r_has_prefix(cfg) THEN cfg.key_prefix ELSE "", id>>
r_doc_exists(cfg, docs, id) == r_doc_key(cfg, id) \in DOMAIN docs
r_len(docs) == Cardinality(DOMAIN docs)

\* _getitem: the lines that build and return the document are comments, the
\* call falls off the end of the try block; an exception of line 20 (the
\* missing attribute as well) becomes KeyError
r_getitem(cfg, docs, doc_id) ==
    IF ~r_has_prefix(cfg)
    THEN [raised |-> "KeyError", returned |-> RNoDoc]
    ELSE [raised |-> "none", returned |-> RNoDoc]

r_get_doc_by_id(cfg, docs, id) == r_getitem(cfg, docs, id)

\* _del_doc_by_id
r_del_doc_by_id(cfg, docs, id) ==
    IF ~r_has_prefix(cfg)
    THEN [raised |-> "AttributeError", docs |-> docs]
    ELSE IF r_key(cfg, id) \in DOMAIN docs
         THEN [raised |-> "none",
               docs |-> [k \in (DOMAIN docs) \ {r_key(cfg, id)} |-> docs[k]]]
         ELSE [raised |-> "none", docs |-> docs]

\* _set_doc_by_id
r_set_doc_by_id(cfg, docs, id, value) ==
    IF id # value.id /\ r_del_doc_by_id(cfg, docs, id).raised # "none"
    THEN r_del_doc_by_id(cfg, docs, id)
    ELSE [raised |-> "none",
          docs |-> r_add(cfg,
                         IF id # value.id THEN r_del_doc_by_id(cfg, docs, id).docs ELSE docs,
                         id, document_to_redis(value))]

\* no key self._offset2id_key in the database
RNoList == [exists |-> FALSE, items |-> <<>>]

\* BackendMixin._get_offset2ids_meta
r_get_offset2ids_meta(cfg, list) ==
    IF ~list.exists THEN <<>>
    ELSE [i \in 1..Len(list.items) |-> r_response(cfg, list.items[i])]

\* BackendMixin._update_offset2ids_meta: the key is deleted if it exists,
\* and created by rpush if there is an id to push
r_update_offset2ids_meta(list, ids) ==
    IF Len(ids) > 0
    THEN [exists |-> TRUE, items |-> [i \in 1..Len(ids) |-> r_encode(ids[i])]]
    ELSE RNoList

\* RedisConfig(n_dim=..): every other field at its default
RDefaultConfig == [key_prefix |-> None, decode_responses |-> FALSE]

RStart ==
    /\ r_config \in IF backend \in {"redis", "redis_meta"} THEN RConfigs ELSE {RDefaultConfig}
    /\ r_docs = REmptyDocs
    /\ r_last = [op |-> "init", id |-> None, value |-> RNoDoc, raised |-> "none",
                 returned |-> RNoDoc, before |-> REmptyDocs]
    /\ r_list = RNoList
    /\ r_offset2ids = <<>>
    /\ r_saved = <<>>
    /\ rm_last = "init"

RLast(op, id, value, raised, returned) ==
    [op |-> op, id |-> id, value |-> value, raised |-> raised,
     returned |-> returned, before |-> r_docs]

RSetDocById ==
    \E id \in RIds, value \in RDocuments :
        /\ backend = "redis"
        /\ r_docs' = r_set_doc_by_id(r_config, r_docs, id, value).docs
        /\ r_last' = RLast("set_doc_by_id", id, value,
                           r_set_doc_by_id(r_config, r_docs, id, value).raised, RNoDoc)

RGetDocById ==
    \E id \in RIds :
        /\ backend = "redis"
        /\ r_last' = RLast("get_doc_by_id", id, RNoDoc,
                           r_get_doc_by_id(r_config, r_docs, id).raised,
                           r_get_doc_by_id(r_config, r_docs, id).returned)
        /\ UNCHANGED r_docs

RDelDocById ==
    \E id \in RIds :
        /\ backend = "redis"
        /\ r_docs' = r_del_doc_by_id(r_config, r_docs, id).docs
        /\ r_last' = RLast("del_doc_by_id", id, RNoDoc,
                           r_del_doc_by_id(r_config, r_docs, id).raised, RNoDoc)

NextRedis ==
    /\ RSetDocById \/ RGetDocById \/ RDelDocById
    /\ UNCHANGED <<backend, es_vars, q_vars, da_vars, em_vars, r_config, r_meta_vars, x_vars>>

\* the table gains an id (an id reaches it as a str)
RAppend ==
    \E id \in RIds :
        /\ backend = "redis_meta"
        /\ Len(r_offset2ids) < MaxRedisTable
        /\ r_offset2ids' = Append(r_offset2ids, RStr(id))
        /\ rm_last' = "append"
        /\ UNCHANGED <<r_list, r_saved>>

\* the table loses the id at an offset
RRemove ==
    \E k \in 1..Len(r_offset2ids) :
        /\ backend = "redis_meta"
        /\ r_offset2ids' = [i \in 1..(Len(r_offset2ids) - 1) |->
                               IF i < k THEN r_offset2ids[i] ELSE r_offset2ids[i + 1]]
        /\ rm_last' = "remove"
        /\ UNCHANGED <<r_list, r_saved>>

\* _save_offset2ids
RSave ==
    /\ backend = "redis_meta"
    /\ r_list' = r_update_offset2ids_meta(r_list, r_offset2ids)
    /\ r_saved' = r_offset2ids
    /\ rm_last' = "save"
    /\ UNCHANGED r_offset2ids

\* _load_offset2ids
RLoad ==
    /\ backend = "redis_meta"
    /\ r_offset2ids' = r_get_offset2ids_meta(r_config, r_list)
    /\ rm_last' = "load"
    /\ UNCHANGED <<r_list, r_saved>>

NextRedisMeta ==
    /\ RAppend \/ RRemove \/ RSave \/ RLoad
    /\ UNCHANGED <<backend, es_vars, q_vars, da_vars, em_vars, r_config, r_doc_vars, x_vars>>

(***************************************************************************)
(* Index expressions and their classification by __setitem__               *)
(*                                                                         *)
(* A Python value is a record tagged with its type:                        *)
(*   [t |-> "int", v |-> 1]   [t |-> "bool", v |-> TRUE]   [t |-> "float"] *)
(*   [t |-> "none"]   [t |-> "str", v |-> "a"]   [t |-> "ellipsis"]        *)
(*   [t |-> "slice", start |-> 0, stop |-> 2]                              *)
(*   [t |-> "list", v |-> <<..>>]   [t |-> "tuple", v |-> <<..>>]          *)
(*   [t |-> "doc", v |-> document]                                         *)
(***************************************************************************)
PyInt(k) == [t |-> "int", v |-> k]
PyBool(b) == [t |-> "bool", v |-> b]
PyStr(x) == [t |-> "str", v |-> x]
PyList(xs) == [t |-> "list", v |-> xs]
PyTuple(xs) == [t |-> "tuple", v |-> xs]
PySlice(a, b) == [t |-> "slice", start |-> a, stop |-> b]
PyDoc(d) == [t |-> "doc", v |-> d]
PyFloat == [t |-> "float"]
PyNone == [t |-> "none"]
PyEllipsis == [t |-> "ellipsis"]

\* the strings of the model that begin with '@'
AtStrings == {"@r", "@c"}

\* index[1:] of a string that begins with '@'
strip_at(x) == IF x = "@r" THEN "r" ELSE IF x = "@c" THEN "c" ELSE ""

\* str.startswith('@')
startswith_at(x) == x \in AtStrings

\* isinstance(index, Sequence) for an index that is not a str
IsSequence(index) == index.t \in {"list", "tuple"}

\* mutant: a str is an identifier whatever it begins with
index_class_str_is_id(index) ==
    IF index.t = "int" THEN "offset"
    ELSE IF index.t = "str" THEN "id"
    ELSE IF index.t = "slice" THEN "slice"
    ELSE IF index.t = "ellipsis" THEN "ellipsis"
    ELSE IF IsSequence(index)
        THEN IF index.t = "tuple" /\ Len(index.v) = 2 THEN "pair"
             ELSE IF Len(index.v) = 0 THEN "IndexError_list_index_out_of_range"
             ELSE IF index.v[1].t = "bool" THEN "mask"
             ELSE IF index.v[1].t \in {"int", "str"} THEN "elements"
             ELSE "fallthrough"
    ELSE IF index.t = "ndarray" THEN "ndarray"
    ELSE "IndexError_unsupported_index_type"

\* The branch of __setitem__ an index takes (lines 67-103), or the error the
\* classification itself raises.  "fallthrough" is a sequence that matches
\* none of the three inner branches: the if/elif chain of lines 79-92 has
\* no else, so the call returns.
index_class(index) ==
    IF index.t = "int" THEN "offset"
    ELSE IF index.t = "str"
        THEN IF startswith_at(index.v) THEN "traverse" ELSE "id"
    ELSE IF index.t = "slice" THEN "slice"
    ELSE IF index.t = "ellipsis" THEN "ellipsis"
    ELSE IF IsSequence(index)
        THEN IF index.t = "tuple" /\ Len(index.v) = 2 THEN "pair"
             ELSE IF Len(index.v) = 0 THEN "IndexError_list_index_out_of_range"
             ELSE IF index.v[1].t = "bool" THEN "mask"
             ELSE IF index.v[1].t \in {"int", "str"} THEN "elements"
             ELSE "fallthrough"
    ELSE IF index.t = "ndarray" THEN "ndarray"
    ELSE "IndexError_unsupported_index_type"

(***************************************************************************)
(* Qdrant backend                                                          *)
(***************************************************************************)
MaxBatch == 2           \* documents passed to one _upload_batch call
ScrollBatchSize == 1    \* scroll_batch_size of the collection's config

QIds == {"a", "b", "c"}
QTexts == {"x", "y"}
QDocuments == [id : QIds, text : QTexts]
QNoDoc == [id |-> None, text |-> None]

\* Document.to_base64 / Document.from_base64
q_to_base64(doc) == <<"b64", doc.id, doc.text>>
q_from_base64(blob) == [id |-> blob[2], text |-> blob[3]]

\* _document_to_qdrant.  The vector of a point is written and never read
\* back (get_point's vector is unused, scroll asks with_vector=False).
document_to_qdrant(doc) ==
    [id |-> doc.id, payload |-> [serialized |-> q_to_base64(doc)]]

\* _qdrant_to_document
qdrant_to_document(qdrant_record) == q_from_base64(qdrant_record.payload.serialized)

QEmptyPoints == [i \in {} |-> None]

\* upsert_points of one point: inserts it, or replaces the point of that id
upsert_point(points, p) ==
    [i \in (DOMAIN points) \cup {p.id} |-> IF i = p.id THEN p ELSE points[i]]

RECURSIVE upsert_points(_, _)
upsert_points(points, ps) ==
    IF ps = <<>> THEN points
    ELSE upsert_points(upsert_point(points, Head(ps)), Tail(ps))

\* delete_points with PointIdsList(points=[_id]); an absent id is no error
delete_points(points, _id) == [i \in (DOMAIN points) \ {_id} |-> points[i]]

\* get_point: the point, or the 404 of an id that is not stored
get_point(points, _id) ==
    IF _id \in DOMAIN points
    THEN [status |-> 200, result |-> points[_id]]
    ELSE [status |-> 404, result |-> document_to_qdrant(QNoDoc)]

\* _upload_batch
upload_batch(points, docs) ==
    upsert_points(points, [i \in 1..Len(docs) |-> document_to_qdrant(docs[i])])

\* _get_doc_by_id on the response of get_point (a response whose status is
\* not 200 is an UnexpectedResponse): [raised, returned, doc].  The except
\* clause re-raises only for 404; for any other status the function ends
\* without a return statement, which returns None.
qdrant_get_doc_by_id(resp) ==
    IF resp.status = 200
    THEN [raised |-> "none", returned |-> "Document", doc |-> qdrant_to_document(resp.result)]
    ELSE IF resp.status = 404
    THEN [raised |-> "KeyError", returned |-> "nothing", doc |-> QNoDoc]
    ELSE [raised |-> "none", returned |-> "None", doc |-> QNoDoc]

\* _del_doc_by_id
qdrant_del_doc_by_id(points, _id) == delete_points(points, _id)

\* _set_doc_by_id, lines 82-83: the points after the optional delete
qdrant_set_doc_by_id_delete(points, _id, value) ==
    IF _id # value.id THEN qdrant_del_doc_by_id(points, _id) ELSE points

\* mutant: the document is written and the old id is left in the store
qdrant_set_doc_by_id_keeps_old(points, _id, value) ==
    upsert_point(points, document_to_qdrant(value))

\* _set_doc_by_id, lines 82-88
qdrant_set_doc_by_id(points, _id, value) ==
    upsert_point(qdrant_set_doc_by_id_delete(points, _id, value), document_to_qdrant(value))

\* _set_doc_by_offset, _get_doc_by_offset, _del_doc_by_offset
qdrant_set_doc_by_offset(points, offset, value) == [raised |-> "NotImplementedError", points |-> points]
qdrant_get_doc_by_offset(points, offset) == [raised |-> "NotImplementedError", doc |-> QNoDoc]
qdrant_del_doc_by_offset(points, offset) == [raised |-> "NotImplementedError", points |-> points]

\* __len__: vectors_count of the collection
q_len(points) == Cardinality(DOMAIN points)

\* the order in which the store scrolls through its points
QIdRank(id) == CASE id = "a" -> 1 [] id = "b" -> 2 [] id = "c" -> 3

QSorted(S) ==
    [k \in 1..Cardinality(S) |->
        CHOOSE x \in S : Cardinality({y \in S : QIdRank(y) < QIdRank(x)}) = k - 1]

\* scroll_points: up to limit points from the one with id offset on (from
\* the first when offset is None), and the id of the point after them
scroll_points(points, offset, limit) ==
    LET from == {i \in DOMAIN points : offset = None \/ QIdRank(i) >= QIdRank(offset)}
        order == QSorted(from)
        n == IF Len(order) < limit THEN Len(order) ELSE limit
    IN  [points |-> [k \in 1..n |-> points[order[k]]],
         next_page_offset |-> IF Len(order) > n THEN order[n + 1] ELSE None]

\* Python's truth value of a next_page_offset (None or a str)
Truthy(x) == x # None /\ x # ""

\* mutant: the loop ends after the first page
scan_continues_never(response) == FALSE

\* scan, lines 105-108: whether the loop fetches another page
scan_continues(response) == Truthy(response.next_page_offset)

\* mutant: the points of a page are gone through twice
scan_yield_twice(response) ==
    [k \in 1..Len(response.points) |-> qdrant_to_document(response.points[k])]
        \o [k \in 1..Len(response.points) |-> qdrant_to_document(response.points[k])]

\* scan, lines 102-103: the documents yielded for one page
scan_yield(response) ==
    [k \in 1..Len(response.points) |-> qdrant_to_document(response.points[k])]

\* no earlier scan to compare with
QNoPrev == [valid |-> FALSE, out |-> <<>>]

\* the responses get_point gives when the store fails (UnexpectedResponse
\* with a status that is not 404)
QFailures == {[status |-> 500, result |-> document_to_qdrant(QNoDoc)]}

\* the record of a call: its arguments, what it raised, the points before it
QLast(op, id, offset, value, docs, raised, before) ==
    [op |-> op, id |-> id, offset |-> offset, value |-> value, docs |-> docs,
     raised |-> raised, before |-> before]

QStart ==
    /\ q_points = QEmptyPoints
    /\ q_last = QLast("init", None, 0, QNoDoc, <<>>, "none", QEmptyPoints)
    /\ q_scan_pc = "idle"
    /\ q_scan_offset = None
    /\ q_scan_out = <<>>
    /\ q_scan_prev = QNoPrev

\* a call that changes the store: made between scans; what an earlier scan
\* yielded is no longer looked at
QMutation ==
    /\ backend = "qdrant"
    /\ q_scan_pc # "running"
    /\ q_scan_pc' = "idle"
    /\ q_scan_offset' = None
    /\ q_scan_out' = <<>>
    /\ q_scan_prev' = QNoPrev
    /\ UNCHANGED <<backend, es_vars, da_vars, ext_vars>>

QUploadBatch ==
    \E docs \in SeqsUpTo(QDocuments, MaxBatch) :
        /\ QMutation
        /\ q_points' = upload_batch(q_points, docs)
        /\ q_last' = QLast("upload_batch", None, 0, QNoDoc, docs, "none", q_points)

\* _set_doc_by_id(_id, value) that returns normally
QSetDocById ==
    \E _id \in QIds, value \in QDocuments :
        /\ QMutation
        /\ q_points' = qdrant_set_doc_by_id(q_points, _id, value)
        /\ q_last' = QLast("set_doc_by_id", _id, 0, value, <<>>, "none", q_points)

\* _set_doc_by_id(_id, value) in which upsert_points raises
QSetDocByIdRaises ==
    \E _id \in QIds, value \in QDocuments :
        /\ QMutation
        /\ q_points' = qdrant_set_doc_by_id_delete(q_points, _id, value)
        /\ q_last' = QLast("set_doc_by_id", _id, 0, value, <<>>, "UnexpectedResponse",
                           q_points)

QDelDocById ==
    \E _id \in QIds :
        /\ QMutation
        /\ q_points' = qdrant_del_doc_by_id(q_points, _id)
        /\ q_last' = QLast("del_doc_by_id", _id, 0, QNoDoc, <<>>, "none", q_points)

\* da[k] = value: __setitem__ takes the offset branch and calls
\* _set_doc_by_offset(int(index), value)
QSetItemByOffset ==
    \E k \in (0 - Cardinality(QIds))..(Cardinality(QIds) - 1), value \in QDocuments :
        /\ index_class(PyInt(k)) = "offset"
        /\ QMutation
        /\ q_points' = qdrant_set_doc_by_offset(q_points, k, value).points
        /\ q_last' = QLast("setitem_offset", None, k, value, <<>>,
                           qdrant_set_doc_by_offset(q_points, k, value).raised, q_points)

\* scan() is called: the generator starts
QScanStart ==
    /\ backend = "qdrant"
    /\ q_scan_pc # "running"
    /\ q_scan_pc' = "running"
    /\ q_scan_offset' = None
    /\ q_scan_out' = <<>>
    /\ q_scan_prev' = QNoPrev
    /\ UNCHANGED <<backend, es_vars, da_vars, ext_vars, q_points, q_last>>

\* scan() is called again once a scan has ended, nothing written in between
QScanAgain ==
    /\ backend = "qdrant"
    /\ q_scan_pc = "done"
    /\ q_scan_pc' = "running"
    /\ q_scan_offset' = None
    /\ q_scan_out' = <<>>
    /\ q_scan_prev' = [valid |-> TRUE, out |-> q_scan_out]
    /\ UNCHANGED <<backend, es_vars, da_vars, ext_vars, q_points, q_last>>

\* one iteration of scan's loop: a page is fetched and yielded, and the loop
\* goes on if the page names a next one
QScanPage ==
    /\ backend = "qdrant"
    /\ q_scan_pc = "running"
    /\ LET response == scroll_points(q_points, q_scan_offset, ScrollBatchSize)
       IN  /\ q_scan_out' = q_scan_out \o scan_yield(response)
           /\ IF scan_continues(response)
              THEN /\ q_scan_offset' = response.next_page_offset
                   /\ UNCHANGED q_scan_pc
              ELSE /\ q_scan_pc' = "done"
                   /\ UNCHANGED q_scan_offset
    /\ UNCHANGED <<backend, es_vars, da_vars, ext_vars, q_points, q_last, q_scan_prev>>

\* _get_doc_by_id(_id): get_point answers with the point, with 404, or - the
\* store failing - with another status
QGetDocById ==
    \E _id \in QIds :
        \E resp \in {get_point(q_points, _id)} \cup QFailures :
            /\ backend = "qdrant"
            /\ q_scan_pc # "running"
            /\ q_last' = [op |-> "get_doc_by_id", id |-> _id, status |-> resp.status,
                          raised |-> qdrant_get_doc_by_id(resp).raised,
                          returned |-> qdrant_get_doc_by_id(resp).returned,
                          doc |-> qdrant_get_doc_by_id(resp).doc,
                          before |-> q_points]
            /\ UNCHANGED <<backend, es_vars, da_vars, ext_vars, q_points, q_scan_vars>>

\* _id_exists(x), seqlike.py lines 50-55: True unless _get_doc_by_id raises
\* KeyError
qdrant_id_exists(resp) == qdrant_get_doc_by_id(resp).raised # "KeyError"

\* x in da, seqlike.py lines 42-48: x is a str, a Document or something else
QContains ==
    \E x \in {PyStr(i) : i \in QIds} \cup {PyDoc(d) : d \in QDocuments} \cup {PyInt(0), PyNone} :
        \E resp \in IF x.t \in {"str", "doc"}
                     THEN {get_point(q_points, IF x.t = "str" THEN x.v ELSE x.v.id)} \cup QFailures
                     ELSE {[status |-> 0, result |-> document_to_qdrant(QNoDoc)]} :
            /\ backend = "qdrant"
            /\ q_scan_pc # "running"
            /\ q_last' = [op |-> "contains", x |-> x, status |-> resp.status,
                          raised |-> "none",
                          returned |-> IF x.t \in {"str", "doc"} THEN qdrant_id_exists(resp)
                                       ELSE FALSE,
                          before |-> q_points]
            /\ UNCHANGED <<backend, es_vars, da_vars, ext_vars, q_points, q_scan_vars>>

NextQdrant ==
    \/ QUploadBatch
    \/ QSetDocById
    \/ QSetDocByIdRaises
    \/ QDelDocById
    \/ QSetItemByOffset
    \/ QScanStart
    \/ QScanPage

\* writes by id, deletions and repeated scans
NextQdrantScan == QSetDocById \/ QDelDocById \/ QScanStart \/ QScanAgain \/ QScanPage

\* uploads, deletions and reads by id
NextQdrantGet == QUploadBatch \/ QDelDocById \/ QGetDocById

\* uploads, deletions and membership tests
NextQdrantContains == QUploadBatch \/ QDelDocById \/ QContains

(***************************************************************************)
(* The collection and its primitives: the Offset2ID table, the documents   *)
(* stored by id, and the get/set operations the index resolver ends in.    *)
(* A collection is a record S = [ids, docs]: ids is the Offset2ID table,   *)
(* docs maps each stored identifier to its document.  An operation returns *)
(* [ids, docs, raised]: the collection after it and the exception raised   *)
(* ("none" when it returns).                                               *)
(***************************************************************************)
MaxDocs == 3        \* documents of the collection at construction
MaxIndexLen == 2    \* elements of a list index
MaxValueLen == 2    \* elements of a value list

DaIds == {"a", "b", "text"}
DaTexts == {"x", "y"}
DaDocuments == [id : DaIds, text : DaTexts, embedding : {None}, tensor : {None}]
DaNoDoc == [id |-> None, text |-> None, embedding |-> None, tensor |-> None]

\* the attribute names of a Document the model knows
DocAttributes == {"id", "text", "embedding", "tensor"}

\* hasattr(doc, name)
hasattr(doc, name) == name \in DocAttributes

Ok(S) == [ids |-> S.ids, docs |-> S.docs, raised |-> "none"]
Raise(S, e) == [ids |-> S.ids, docs |-> S.docs, raised |-> e]
StateOf(r) == [ids |-> r.ids, docs |-> r.docs]

\* len(): the length of the Offset2ID table
da_len(S) == Len(S.ids)

\* a negative offset counts from the end
NormOffset(S, k) == IF k < 0 THEN k + da_len(S) ELSE k
ValidOffset(S, k) == NormOffset(S, k) >= 0 /\ NormOffset(S, k) < da_len(S)

\* Offset2ID.id_at(offset)
id_at(S, k) == S.ids[NormOffset(S, k) + 1]

\* exists(id)
exists(S, id) == id \in DOMAIN S.docs

\* x in self, for a str or a Document
contains(S, x) ==
    IF x.t = "str" THEN exists(S, x.v)
    ELSE IF x.t = "doc" THEN exists(S, x.v.id)
    ELSE FALSE

\* get_by_id(id): the document, or NotFound
get_by_id(S, id) ==
    IF exists(S, id) THEN [raised |-> "none", doc |-> S.docs[id]]
    ELSE [raised |-> "KeyError", doc |-> DaNoDoc]

\* get_by_offset(k): the document at a valid offset, or NotFound
get_by_offset(S, k) ==
    IF ValidOffset(S, k) THEN get_by_id(S, id_at(S, k))
    ELSE [raised |-> "IndexError_offset_out_of_range", doc |-> DaNoDoc]

\* self[i] for a single offset or identifier
getitem_one(S, i) ==
    IF i.t = "int" THEN get_by_offset(S, i.v)
    ELSE IF i.t = "str" THEN get_by_id(S, i.v)
    ELSE [raised |-> "IndexError_unsupported_index_type", doc |-> DaNoDoc]

RECURSIVE GetEach(_, _)
GetEach(S, elems) ==
    IF elems = <<>> THEN [raised |-> "none", docs |-> <<>>]
    ELSE LET g == getitem_one(S, Head(elems))
             rest == GetEach(S, Tail(elems))
         IN  IF g.raised # "none" THEN [raised |-> g.raised, docs |-> <<>>]
             ELSE IF rest.raised # "none" THEN rest
             ELSE [raised |-> "none", docs |-> <<g.doc>> \o rest.docs]

\* range(len(self))[start:stop] for 0 <= start, 0 <= stop
slice_offsets(S, sl) ==
    LET lo == IF sl.start < da_len(S) THEN sl.start ELSE da_len(S)
        hi == IF sl.stop < da_len(S) THEN sl.stop ELSE da_len(S)
    IN  [i \in 1..(IF hi > lo THEN hi - lo ELSE 0) |-> lo + i - 1]

\* the documents at the offsets of a sequence, in its order
DocsAt(S, offsets) ==
    GetEach(S, [i \in 1..Len(offsets) |-> [t |-> "int", v |-> offsets[i]]])

\* flatten(): every document in offset order (documents have no chunks)
flatten(S) == DocsAt(S, [i \in 1..da_len(S) |-> i - 1])

\* traverse_flat(path): "r" is the root level, every other level is empty
traverse_flat(S, path) ==
    IF path = "r" THEN flatten(S) ELSE [raised |-> "none", docs |-> <<>>]

\* self[index] for a list, a slice or Ellipsis: the selected documents in the
\* order of the index
getitem_many(S, index) ==
    IF index.t \in {"list", "tuple"} THEN GetEach(S, index.v)
    ELSE IF index.t = "slice" THEN DocsAt(S, slice_offsets(S, index))
    ELSE IF index.t = "ellipsis" THEN flatten(S)
    ELSE [raised |-> "IndexError_unsupported_index_type", docs |-> <<>>]

\* the collection after the document at table position pos (1-based) is
\* replaced by doc: the old id leaves the store, the table holds doc.id
replace_at(S, pos, doc) ==
    [ids |-> [i \in 1..Len(S.ids) |-> IF i = pos THEN doc.id ELSE S.ids[i]],
     docs |-> [j \in ((DOMAIN S.docs) \ {S.ids[pos]}) \cup {doc.id} |->
                 IF j = doc.id THEN doc ELSE S.docs[j]]]

\* Offset2ID.offset_of(id), 1-based: the first position that holds id
offset_of(S, id) ==
    CHOOSE i \in 1..Len(S.ids) :
        S.ids[i] = id /\ \A j \in 1..(i - 1) : S.ids[j] # id

\* set_by_id(id, doc): replaces the payload; the old id is deleted when the
\* document's id differs
_set_doc_by_id(S, _id, value) ==
    IF value.t # "doc" THEN Raise(S, "AttributeError")
    ELSE IF ~exists(S, _id) \/ _id \notin Range(S.ids) THEN Raise(S, "KeyError")
    ELSE Ok(replace_at(S, offset_of(S, _id), value.v))

\* set_by_offset(k, doc): replaces the payload at the offset
_set_doc_by_offset(S, offset, value) ==
    IF value.t # "doc" THEN Raise(S, "AttributeError")
    ELSE IF ~ValidOffset(S, offset) THEN Raise(S, "IndexError_offset_out_of_range")
    ELSE Ok(replace_at(S, NormOffset(S, offset) + 1, value.v))

RECURSIVE SetPairs(_, _, _)
SetPairs(S, docs, values) ==
    IF docs = <<>> \/ values = <<>> THEN Ok(S)
    ELSE LET r == _set_doc_by_id(S, Head(docs).id, Head(values))
         IN  IF r.raised # "none" THEN r
             ELSE SetPairs(StateOf(r), Tail(docs), Tail(values))

\* set by value pairs: each document receives the value at its position; a
\* value sequence of another length fails before any write
_set_doc_value_pairs(S, selected, value) ==
    IF selected.raised # "none" THEN Raise(S, selected.raised)
    ELSE IF ~IsSequence(value) THEN Raise(S, "TypeError")
    ELSE IF Len(selected.docs) # Len(value.v) THEN Raise(S, "ValueError_length_mismatch")
    ELSE SetPairs(S, selected.docs, value.v)

RECURSIVE SetOffsets(_, _, _)
SetOffsets(S, offsets, values) ==
    IF offsets = <<>> \/ values = <<>> THEN Ok(S)
    ELSE LET r == _set_doc_by_offset(S, Head(offsets), Head(values))
         IN  IF r.raised # "none" THEN r
             ELSE SetOffsets(StateOf(r), Tail(offsets), Tail(values))

\* set by slice: the offsets of the slice against the current length, each
\* set from the value at its position
_set_docs_by_slice(S, sl, value) ==
    IF ~IsSequence(value) THEN Raise(S, "TypeError")
    ELSE IF Len(slice_offsets(S, sl)) # Len(value.v)
        THEN Raise(S, "ValueError_length_mismatch")
    ELSE SetOffsets(S, slice_offsets(S, sl), value.v)

\* the single-attribute-by-id primitive: the document stored under the
\* identifier key gets attribute attr set to value and is stored again
_set_doc_attr_by_id(S, key, attr, value) ==
    IF key.t # "str" THEN Raise(S, "KeyError")
    ELSE IF ~exists(S, key.v) \/ key.v \notin Range(S.ids) THEN Raise(S, "KeyError")
    ELSE IF ~hasattr(S.docs[key.v], attr) THEN Ok(S)
    ELSE IF value.t = "none" /\ attr = "id" THEN Raise(S, "ValueError_id_none")
    ELSE IF value.t \notin {"str", "none"} THEN Raise(S, "TypeError")
    ELSE Ok(replace_at(S, offset_of(S, key.v),
                       [S.docs[key.v] EXCEPT ![attr] = IF value.t = "none" THEN None ELSE value.v]))

\* the batch setter of an array column (embeddings, tensors) on selected
\* documents: one row per document, or None to clear the column
set_array_column(docs, which, value) ==
    IF value.t = "none"
    THEN [raised |-> "none", docs |-> [i \in 1..Len(docs) |-> [docs[i] EXCEPT ![which] = None]]]
    ELSE IF ~IsSequence(value) THEN [raised |-> "TypeError", docs |-> docs]
    ELSE IF Len(value.v) # Len(docs) THEN [raised |-> "ValueError_length_mismatch", docs |-> docs]
    ELSE [raised |-> "none",
          docs |-> [i \in 1..Len(docs) |-> [docs[i] EXCEPT ![which] = value.v[i].v]]]

(***************************************************************************)
(* SetItemMixin: __setitem__ and its helpers                               *)
(***************************************************************************)
\* the characters of a str of the model, each a str
StrChars(x) ==
    IF x = "text" THEN <<PyStr("t"), PyStr("e"), PyStr("x"), PyStr("t")>>
    ELSE IF x = "id" THEN <<PyStr("i"), PyStr("d")>>
    ELSE IF x = "nope" THEN <<PyStr("n"), PyStr("o"), PyStr("p"), PyStr("e")>>
    ELSE IF x = "" THEN <<>>
    ELSE <<PyStr(x)>>

\* iterating a value, as zip does: [raised, items]
py_iter(value) ==
    IF IsSequence(value) THEN [raised |-> "none", items |-> value.v]
    ELSE IF value.t = "str" THEN [raised |-> "none", items |-> StrChars(value.v)]
    ELSE [raised |-> "TypeError", items |-> <<>>]

\* Python's truth value of an element of a mask
py_truth(x) ==
    IF x.t = "bool" THEN x.v
    ELSE IF x.t = "int" THEN x.v # 0
    ELSE IF x.t = "none" THEN FALSE
    ELSE TRUE

\* itertools.compress(self, mask)
compress(S, mask) ==
    LET sel == SelectSeq([i \in 1..da_len(S) |-> i],
                         LAMBDA i : i <= Len(mask) /\ py_truth(mask[i]))
    IN  DocsAt(S, [i \in 1..Len(sel) |-> sel[i] - 1])

\* _set_by_mask, lines 144-151; len(mask) raises TypeError for a mask that
\* has no length
_set_by_mask(S, mask, value) ==
    IF ~IsSequence(mask) THEN Raise(S, "TypeError_no_len")
    ELSE IF Len(mask.v) # da_len(S) THEN Raise(S, "IndexError_mask_length")
    ELSE _set_doc_value_pairs(S, compress(S, mask.v), value)

\* lines 186-187 (and 183-184 with the same value repeated):
\* for _d, _vv in zip(_docs, _v): self._set_doc_attr_by_id(_d.id, _a, _vv)
RECURSIVE SetAttrZip(_, _, _, _)
SetAttrZip(S, docs, attr, values) ==
    IF docs = <<>> \/ values = <<>> THEN Ok(S)
    ELSE LET r == _set_doc_attr_by_id(S, PyStr(Head(docs).id), attr, Head(values))
         IN  IF r.raised # "none" THEN r
             ELSE SetAttrZip(StateOf(r), Tail(docs), attr, Tail(values))

\* lines 179-180: for _d in _docs: self._set_doc_by_id(_d.id, _d)
RECURSIVE PersistEach(_, _)
PersistEach(S, docs) ==
    IF docs = <<>> THEN Ok(S)
    ELSE LET r == _set_doc_by_id(S, Head(docs).id, PyDoc(Head(docs)))
         IN  IF r.raised # "none" THEN r ELSE PersistEach(StateOf(r), Tail(docs))

\* mutant: every selected document receives the first value of the sequence
SetColumn_first_value(S, docs, attr, value) ==
    IF IsSequence(value) /\ value.v # <<>>
    THEN SetAttrZip(S, docs, attr, [i \in 1..Len(docs) |-> value.v[1]])
    ELSE SetAttrZip(S, docs, attr, [i \in 1..Len(docs) |-> value])

\* lines 174-187: one (_a, _v) pair of the loop applied to _docs
SetColumn(S, docs, attr, value) ==
    IF attr \in {"tensor", "embedding"}
    THEN LET col == set_array_column(docs, attr, value)
         IN  IF col.raised # "none" THEN Raise(S, col.raised)
             ELSE PersistEach(S, col.docs)
    ELSE IF ~IsSequence(value)
    THEN SetAttrZip(S, docs, attr, [i \in 1..Len(docs) |-> value])
    ELSE SetAttrZip(S, docs, attr, value.v)

\* line 173: for _a, _v in zip(attributes, value)
RECURSIVE SetColumns(_, _, _, _)
SetColumns(S, docs, attributes, values) ==
    IF attributes = <<>> \/ values = <<>> THEN Ok(S)
    ELSE LET r == SetColumn(S, docs, Head(attributes).v, Head(values))
         IN  IF r.raised # "none" THEN r
             ELSE SetColumns(StateOf(r), docs, Tail(attributes), Tail(values))

\* lines 155-158: a -> (a,)
NormalizeAttributes(attributes) ==
    IF attributes.t = "str" THEN PyTuple(<<attributes>>) ELSE attributes

\* lines 159-167: [x] -> ([x],) for a flat list, x -> (x,) for a scalar
NormalizeValue(value) ==
    LET v1 == IF IsSequence(value) /\ ~\E i \in 1..Len(value.v) : IsSequence(value.v[i])
              THEN PyTuple(<<value>>) ELSE value
    IN  IF ~IsSequence(v1) THEN PyTuple(<<v1>>) ELSE v1

\* _set_docs_attributes, lines 153-187.  _docs holds the documents as they
\* were fetched by self[index].
_set_docs_attributes(S, index, attributes, value) ==
    LET _docs == getitem_many(S, index)
    IN  IF _docs.raised # "none" THEN Raise(S, _docs.raised)
        ELSE IF _docs.docs = <<>> THEN Ok(S)
        ELSE IF py_iter(NormalizeAttributes(attributes)).raised # "none"
            THEN Raise(S, "TypeError")
        ELSE SetColumns(S, _docs.docs, py_iter(NormalizeAttributes(attributes)).items,
                        NormalizeValue(value).v)

\* lines 119-120 and 136-137:
\* for attr, _v in zip(idx2, value): self._set_doc_attr_by_id(idx1, attr, _v)
RECURSIVE SetAttrs(_, _, _, _)
SetAttrs(S, idx1, attrs, values) ==
    IF attrs = <<>> \/ values = <<>> THEN Ok(S)
    ELSE LET r == _set_doc_attr_by_id(S, idx1, Head(attrs).v, Head(values))
         IN  IF r.raised # "none" THEN r
             ELSE SetAttrs(StateOf(r), idx1, Tail(attrs), Tail(values))

\* lines 109 and 126: self._set_doc_value_pairs((self[idx1], self[idx2]), value)
SetBoth(S, idx1, idx2, value) ==
    IF getitem_one(S, idx1).raised # "none" THEN Raise(S, getitem_one(S, idx1).raised)
    ELSE IF getitem_one(S, idx2).raised # "none" THEN Raise(S, getitem_one(S, idx2).raised)
    ELSE _set_doc_value_pairs(
            S, [raised |-> "none",
                docs |-> <<getitem_one(S, idx1).doc, getitem_one(S, idx2).doc>>], value)

\* lines 111-122 and 128-139: idx2 is read as attribute name(s) of the
\* document self[idx1]; the primitive is called with idx1 itself.  A str is
\* a Sequence of one-character strs, so the third test looks at its
\* characters.
SetAttributesOf(S, idx1, idx2, value) ==
    LET d == getitem_one(S, idx1)
        names == py_iter(idx2).items
    IN  IF idx2.t = "str" /\ d.raised # "none" THEN Raise(S, d.raised)
        ELSE IF idx2.t = "str" /\ hasattr(d.doc, idx2.v)
            THEN _set_doc_attr_by_id(S, idx1, idx2.v, value)
        ELSE IF (idx2.t = "str" \/ IsSequence(idx2))
                /\ \A i \in 1..Len(names) : names[i].t = "str"
            THEN IF names = <<>> THEN Ok(S)
                 ELSE IF d.raised # "none" THEN Raise(S, d.raised)
                 ELSE IF \A i \in 1..Len(names) : hasattr(d.doc, names[i].v)
                     THEN IF py_iter(value).raised # "none" THEN Raise(S, "TypeError")
                          ELSE SetAttrs(S, idx1, names, py_iter(value).items)
                 ELSE Raise(S, "ValueError_not_id_or_attribute")
        ELSE Raise(S, "ValueError_not_id_or_attribute")

\* mutant: with an offset first, a second component that is a stored id
\* selects a second document
_set_by_pair_second_id(S, idx1, idx2, value) ==
    IF idx1.t \in {"str", "int", "bool"}
    THEN IF (idx2.t = "str" /\ contains(S, idx2)) \/ idx2.t \in {"int", "bool"}
         THEN SetBoth(S, idx1, idx2, value)
         ELSE SetAttributesOf(S, idx1, idx2, value)
    ELSE IF idx1.t \in {"slice", "list", "tuple", "ellipsis"}
    THEN _set_docs_attributes(S, idx1, idx2, value)
    ELSE Ok(S)

\* mutant: with an id first, a second component that names an attribute is
\* read as the attribute before it is looked up as an id
_set_by_pair_attribute_first(S, idx1, idx2, value) ==
    IF idx1.t = "str"
    THEN IF idx2.t = "str" /\ contains(S, idx2) /\ idx2.v \notin DocAttributes
         THEN SetBoth(S, idx1, idx2, value)
         ELSE SetAttributesOf(S, idx1, idx2, value)
    ELSE IF idx1.t \in {"int", "bool"}
    THEN IF idx2.t \in {"int", "bool"}
         THEN SetBoth(S, idx1, idx2, value)
         ELSE SetAttributesOf(S, idx1, idx2, value)
    ELSE IF idx1.t \in {"slice", "list", "tuple", "ellipsis"}
    THEN _set_docs_attributes(S, idx1, idx2, value)
    ELSE Ok(S)

\* _set_by_pair, lines 105-142.  isinstance(idx1, int) holds for a bool too;
\* an idx1 of no listed type matches no branch and the call returns.
_set_by_pair(S, idx1, idx2, value) ==
    IF idx1.t = "str"
    THEN IF idx2.t = "str" /\ contains(S, idx2)
         THEN SetBoth(S, idx1, idx2, value)
         ELSE SetAttributesOf(S, idx1, idx2, value)
    ELSE IF idx1.t \in {"int", "bool"}
    THEN IF idx2.t \in {"int", "bool"}
         THEN SetBoth(S, idx1, idx2, value)
         ELSE SetAttributesOf(S, idx1, idx2, value)
    ELSE IF idx1.t \in {"slice", "list", "tuple", "ellipsis"}
    THEN _set_docs_attributes(S, idx1, idx2, value)
    ELSE Ok(S)

\* numpy: squeeze() drops the dimensions of size 1
squeeze(shape) == SelectSeq(shape, LAMBDA n : n # 1)

\* mutant: a value that is no sequence goes to the first element only
values_for_first_only(index, value) ==
    IF value.t = "str" \/ ~IsSequence(value) THEN <<value>>
    ELSE value.v

\* lines 87-92: the value each element of a list index is paired with - the
\* one value for every element if it is a str or no sequence, else the
\* values in their order
values_for(index, value) ==
    IF value.t = "str" \/ ~IsSequence(value) THEN [i \in 1..Len(index.v) |-> value]
    ELSE value.v

\* __setitem__, lines 61-103.  An ndarray index is
\* [t |-> "ndarray", shape |-> <<..>>, flat |-> its elements in order].
RECURSIVE __setitem__(_, _, _)
RECURSIVE SetEach(_, _, _)

\* mutant: the loop goes on after a failing element and raises at its end
SetEach_goes_on(S, indices, values) ==
    IF indices = <<>> \/ values = <<>> THEN Ok(S)
    ELSE LET r == __setitem__(S, Head(indices), Head(values))
             rest == SetEach(StateOf(r), Tail(indices), Tail(values))
         IN  IF r.raised # "none" THEN Raise(StateOf(rest), r.raised) ELSE rest

\* lines 88-92: for si, _val in zip(index, value): self[si] = _val
SetEach(S, indices, values) ==
    IF indices = <<>> \/ values = <<>> THEN Ok(S)
    ELSE LET r == __setitem__(S, Head(indices), Head(values))
         IN  IF r.raised # "none" THEN r
             ELSE SetEach(StateOf(r), Tail(indices), Tail(values))

__setitem__(S, index, value) ==
    LET c == index_class(index)
    IN  IF c = "offset" THEN _set_doc_by_offset(S, index.v, value)
        ELSE IF c = "traverse"
            THEN _set_doc_value_pairs(S, traverse_flat(S, strip_at(index.v)), value)
        ELSE IF c = "id" THEN _set_doc_by_id(S, index.v, value)
        ELSE IF c = "slice" THEN _set_docs_by_slice(S, index, value)
        ELSE IF c = "ellipsis" THEN _set_doc_value_pairs(S, flatten(S), value)
        ELSE IF c = "pair" THEN _set_by_pair(S, index.v[1], index.v[2], value)
        ELSE IF c = "mask" THEN _set_by_mask(S, index.v[1], value)
        ELSE IF c = "elements" THEN SetEach(S, index.v, values_for(index, value))
        ELSE IF c = "fallthrough" THEN Ok(S)
        ELSE IF c = "ndarray"
            THEN IF Len(squeeze(index.shape)) = 1
                 THEN __setitem__(S, PyList(index.flat), value)
                 ELSE Raise(S, "IndexError_ndim")
        ELSE Raise(S, c)

(***************************************************************************)
(* da[index] = value on a collection                                       *)
(***************************************************************************)
DaListDocs == {d \in DaDocuments : d.text = "y"}

\* value lists of documents
DocLists(n) == {PyList(l) : l \in SeqsUpTo({PyDoc(d) : d \in DaListDocs}, n)}

\* value lists of strs
StrLists(n) == {PyList(l) : l \in SeqsUpTo({PyStr(x) : x \in DaTexts}, n)}

\* the elements of list indices: offsets and an identifier
ListElems == {PyInt(0), PyInt(1), PyStr("b")}
IndexLists(n) == {PyList(l) : l \in SeqsUpTo(ListElems, n) \ {<<>>}}

Slices == {PySlice(lo, hi) : lo \in 0..MaxDocs, hi \in 0..MaxDocs} \ {PySlice(lo, hi) : lo \in 1..MaxDocs, hi \in 0..(MaxDocs - 1)}

Masks == {PyList(l) : l \in SeqsUpTo({PyBool(TRUE), PyBool(FALSE)}, MaxDocs) \ {<<>>}}

NdArrays ==
    {[t |-> "ndarray", shape |-> <<1>>, flat |-> <<PyInt(0)>>],
     [t |-> "ndarray", shape |-> <<2>>, flat |-> <<PyInt(0), PyInt(1)>>],
     [t |-> "ndarray", shape |-> <<1, 2>>, flat |-> <<PyInt(0), PyInt(1)>>],
     [t |-> "ndarray", shape |-> <<2, 2>>, flat |-> <<PyInt(0), PyInt(1), PyInt(0), PyInt(1)>>]}

\* indices that select documents, with document values
SetItemInputs ==
    ({PyInt(k) : k \in (0 - MaxDocs)..MaxDocs} \X {PyDoc(d) : d \in DaDocuments})
    \cup ({PyStr(i) : i \in DaIds \cup {"nope"}} \X {PyDoc(d) : d \in DaDocuments})
    \cup (({PyStr(x) : x \in AtStrings} \cup Slices \cup {PyEllipsis} \cup Masks)
            \X DocLists(MaxValueLen))
    \cup ((IndexLists(MaxIndexLen) \cup NdArrays)
            \X ({PyDoc(d) : d \in DaListDocs} \cup DocLists(MaxValueLen)))
    \cup ({PyList(<<>>), PyList(<<PyFloat>>), PyList(<<PyNone, PyInt(0)>>),
           PyTuple(<<PyFloat, PyInt(0), PyInt(1)>>), PyFloat, PyNone, PyBool(TRUE)}
            \X ({PyDoc(d) : d \in DaListDocs} \cup DocLists(MaxValueLen)))

\* the documents of value lists
ListDocs == {x \in DaDocuments : x.id = "a"}

\* value lists whose elements are documents or a str (which no element can
\* be set to)
ListValues(n) ==
    {PyList(l) : l \in SeqsUpTo({PyDoc(d) : d \in ListDocs} \cup {PyStr("y")}, n)}

\* list indices of an offset and an id
KeyLists(n) == {PyList(l) : l \in SeqsUpTo({PyInt(1), PyStr("b")}, n) \ {<<>>}}

\* what the second component of a pair is drawn from: stored or storable
\* ids (one of them, "text", is an attribute name too) and a string that is
\* neither an id nor an attribute
PairStrs == DaIds \cup {"nope", ""}
\* the ids written by da[..., 'id'] = ...: one that may be stored, one never
\* stored at construction
NewIds == {"a", "n"}
StoredKeys == {PyInt(k) : k \in 0..(MaxDocs - 1)} \cup {PyStr(i) : i \in DaIds}
DocPairs ==
    {PyList(<<PyDoc(d), PyDoc(e)>>) : d, e \in {x \in DaListDocs : x.id \in {"a", "b"}}}

\* list, slice and Ellipsis selectors of da[sel, attr]
Selectors ==
    {PyList(l) : l \in SeqsUpTo({PyInt(0), PyInt(1)}, MaxIndexLen) \ {<<>>}}
    \cup {PyList(<<PyStr("b")>>), PyList(<<PyInt(0), PyStr("b")>>)}
    \cup {PySlice(0, hi) : hi \in 0..MaxDocs} \cup {PySlice(1, MaxDocs)}
    \cup {PyEllipsis}

\* the values of da[..., 'text'] and of da[..., 'id']
TextValues == {PyStr("y")} \cup StrLists(MaxValueLen)
IdValues ==
    {PyStr("n")} \cup {PyList(l) : l \in SeqsUpTo({PyStr(x) : x \in NewIds}, MaxValueLen)}

\* the values of da[key, ['text', 'id']]
TextIdValues ==
    {PyList(<<>>)} \cup {PyList(<<PyStr(x)>>) : x \in DaTexts}
    \cup {PyList(<<PyStr(x), PyStr(i)>>) : x \in DaTexts, i \in NewIds}

\* paired indices whose first component is an offset or an id
SetPairInputs ==
    ({PyTuple(<<k, PyStr(x)>>) : k \in StoredKeys, x \in PairStrs}
        \X ({PyStr(x) : x \in DaTexts} \cup DocPairs))
    \cup ({PyTuple(<<k, PyStr("id")>>) : k \in StoredKeys} \X {PyStr(x) : x \in NewIds})
    \cup ({PyTuple(<<PyInt(k), PyInt(j)>>) : k, j \in 0..(MaxDocs - 1)} \X DocPairs)
    \cup ({PyTuple(<<k, PyList(<<PyStr("text"), PyStr("id")>>)>>) : k \in StoredKeys}
            \X TextIdValues)

\* paired indices whose first component selects several documents
SetAttrInputs ==
    ({PyTuple(<<sel, PyStr("text")>>) : sel \in Selectors} \X TextValues)
    \cup ({PyTuple(<<sel, PyStr("id")>>) : sel \in Selectors} \X IdValues)

DaEmpty ==
    /\ da_ids = <<>>
    /\ da_docs = [i \in {} |-> DaNoDoc]
    /\ da_last = [index |-> PyNone, value |-> PyNone, raised |-> "init"]
    /\ da_before = [ids |-> <<>>, docs |-> [i \in {} |-> DaNoDoc]]

\* a collection as constructed from up to MaxDocs documents of distinct ids
DaStart ==
    /\ da_ids \in {ids \in SeqsUpTo(DaIds, MaxDocs) : NoDuplicates(ids)}
    /\ da_docs \in {f \in [Range(da_ids) -> DaDocuments] : \A i \in DOMAIN f : f[i].id = i}
    /\ da_last = [index |-> PyNone, value |-> PyNone, raised |-> "init"]
    /\ da_before = [ids |-> da_ids, docs |-> da_docs]

DaCall(index, value) ==
    /\ backend = "memory"
    /\ da_last.raised = "init"
    /\ \E r \in {__setitem__([ids |-> da_ids, docs |-> da_docs], index, value)} :
           /\ da_ids' = r.ids
           /\ da_docs' = r.docs
           /\ da_last' = [index |-> index, value |-> value, raised |-> r.raised]
    /\ da_before' = [ids |-> da_ids, docs |-> da_docs]
    /\ UNCHANGED <<backend, es_vars, q_vars, ext_vars>>

\* da[index] = value with an index that selects documents
DaSetItem == \E in \in SetItemInputs : DaCall(in[1], in[2])

\* da[idx1, idx2] = value, idx1 an offset or an id
DaSetPair == \E in \in SetPairInputs : DaCall(in[1], in[2])

\* da[sel, attr] = value, sel a list, a slice or Ellipsis
DaSetAttr == \E in \in SetAttrInputs : DaCall(in[1], in[2])

\* the values of da[sel, ['text', 'id']]: one str per attribute, or one list
\* of strs per attribute
AttrListValues ==
    {PyList(<<PyStr(x), PyStr(i)>>) : x \in DaTexts, i \in NewIds}
    \cup {PyList(<<PyList(xs), PyList(is)>>) :
            xs \in SeqsUpTo({PyStr("y")}, MaxValueLen) \ {<<>>},
            is \in {l \in SeqsUpTo({PyStr(i) : i \in NewIds}, MaxValueLen) : NoDuplicates(l)} \ {<<>>}}

\* da[sel, ['text', 'id']] = value
DaSetAttrList ==
    \E sel \in {PyList(<<PyInt(0)>>), PySlice(0, 1), PySlice(0, MaxDocs)} :
        \E value \in AttrListValues :
            DaCall(PyTuple(<<sel, PyList(<<PyStr("text"), PyStr("id")>>)>>), value)

\* documents whose id may begin with '@', and the str indices of da[s] = value
AtDocs == [id : {"@r", "a"}, text : {"y"}, embedding : {None}, tensor : {None}]
StrIndices == {PyStr(x) : x \in AtStrings \cup {"a", "b", ""}}

\* da[s] = value, s a str
DaSetStr ==
    \E index \in StrIndices :
        \E value \in {PyDoc(d) : d \in AtDocs} \cup {PyList(l) : l \in SeqsUpTo({PyDoc(d) : d \in AtDocs}, MaxValueLen)} :
            DaCall(index, value)

\* da[[i1, .., in]] = [v1, .., vn]
DaSetList ==
    \E index \in KeyLists(MaxIndexLen) :
        \E value \in ListValues(MaxValueLen) \cup {PyDoc(d) : d \in ListDocs} \cup {PyStr("y")} :
            DaCall(index, value)

\* the caller moves on to its next statement: the record of the call is dropped
DaReturn ==
    /\ backend = "memory"
    /\ da_last.raised # "init"
    /\ da_last' = [index |-> PyNone, value |-> PyNone, raised |-> "init"]
    /\ da_before' = [ids |-> da_ids, docs |-> da_docs]
    /\ UNCHANGED <<backend, es_vars, q_vars, ext_vars, da_ids, da_docs>>

NextSetItem == DaSetItem \/ DaReturn
NextSetPair == DaSetPair \/ DaReturn
NextSetAttr == DaSetAttr \/ DaReturn
NextSetList == DaSetList \/ DaReturn
NextSetAttrList == DaSetAttrList \/ DaReturn
NextSetStr == DaSetStr \/ DaReturn


(***************************************************************************)
(* da[sel, attr] = vals for an array attribute, statement by statement      *)
(*                                                                         *)
(* _set_docs_attributes, lines 169-180, on a backend that hands out copies *)
(* of its documents: _docs = self[index], the column setter on _docs, then *)
(* one _set_doc_by_id per element of _docs.                                *)
(***************************************************************************)
MaxSel == 2
MaxRows == 2

\* the documents of the collection, in their order, and the rows of a column
CIds == <<"a", "b">>
CRows == {"row1", "row2"}
CRow(r) == [t |-> "row", v |-> r]
CAttrs == {"embedding", "tensor"}
CDocuments == [id : Range(CIds), text : {"x"}, embedding : CRows \cup {None}, tensor : CRows \cup {None}]

CNoCall == [index |-> <<>>, attr |-> "embedding", value |-> PyNone, raised |-> "init"]

CStart ==
    /\ c_store = [i \in Range(CIds) |-> [id |-> i, text |-> "x", embedding |-> None, tensor |-> None]]
    /\ c_docs = <<>>
    /\ c_pc = "idle"
    /\ c_log = <<>>
    /\ c_call = CNoCall

\* lines 169-171: _docs = self[index]; if not _docs: return
CSelect(index, attr, value) ==
    /\ backend = "column"
    /\ c_pc = "idle"
    /\ c_docs' = [i \in 1..Len(index) |-> c_store[CIds[index[i] + 1]]]
    /\ c_pc' = IF index = <<>> THEN "done" ELSE "column"
    /\ c_log' = <<>>
    /\ c_call' = [index |-> index, attr |-> attr, value |-> value, raised |-> "none"]
    /\ UNCHANGED c_store

\* mutant: a column of the wrong length is cut to the documents it covers
CColumnWrite_truncates(docs, attr, value) ==
    IF IsSequence(value) /\ Len(value.v) # Len(docs)
    THEN [raised |-> "none",
          docs |-> [i \in 1..Len(docs) |->
                      IF i <= Len(value.v) THEN [docs[i] EXCEPT ![attr] = value.v[i].v]
                      ELSE docs[i]]]
    ELSE set_array_column(docs, attr, value)

\* lines 175-178: _docs.tensors = _v, _docs.embeddings = _v
CColumnWrite(docs, attr, value) == set_array_column(docs, attr, value)

\* lines 174-178: the column is written on _docs in one step; a failure of
\* the setter ends the call
CColumn ==
    /\ backend = "column"
    /\ c_pc = "column"
    /\ LET col == CColumnWrite(c_docs, c_call.attr, c_call.value)
       IN  IF col.raised # "none"
           THEN /\ c_pc' = "failed"
                /\ c_call' = [c_call EXCEPT !.raised = col.raised]
                /\ UNCHANGED c_docs
           ELSE /\ c_pc' = "persist"
                /\ c_docs' = col.docs
                /\ UNCHANGED c_call
    /\ UNCHANGED <<c_store, c_log>>

\* lines 179-180: for _d in _docs: self._set_doc_by_id(_d.id, _d), one
\* document per step
CPersist ==
    /\ backend = "column"
    /\ c_pc = "persist"
    /\ LET _d == c_docs[Len(c_log) + 1]
       IN  /\ c_store' = [c_store EXCEPT ![_d.id] = _d]
           /\ c_log' = Append(c_log, _d.id)
    /\ c_pc' = IF Len(c_log) + 1 = Len(c_docs) THEN "done" ELSE "persist"
    /\ UNCHANGED <<c_docs, c_call>>

\* the call returns or its exception reaches the caller
CReturn ==
    /\ backend = "column"
    /\ c_pc \in {"done", "failed"}
    /\ c_pc' = "idle"
    /\ c_docs' = <<>>
    /\ c_log' = <<>>
    /\ c_call' = CNoCall
    /\ UNCHANGED c_store

NextColumn ==
    /\ \/ \E index \in SeqsUpTo(0..(Len(CIds) - 1), MaxSel), attr \in CAttrs :
            \E value \in {PyList(l) : l \in SeqsUpTo({CRow(r) : r \in CRows}, MaxRows)} \cup {PyNone} :
                CSelect(index, attr, value)
       \/ CColumn
       \/ CPersist
       \/ CReturn
    /\ UNCHANGED <<backend, es_vars, q_vars, da_vars, em_vars, r_vars, ec_vars>>

(***************************************************************************)
(* Elastic collections constructed from config objects, and their end       *)
(*                                                                         *)
(* An index name is the sequence of the uuids appended to 'index_name'.    *)
(* A config object is mutable and is shared by the instances constructed   *)
(* from it; the uuid of an instance is its number.                         *)
(***************************************************************************)
MaxInstances == 3
MaxCount == 2

EcInstances == 1..MaxInstances

\* the attributes _init_storage sets on an instance (backend.py lines 71-80;
\* _offset2ids by the base class)
ElasticAttrs == {"_config", "n_dim", "_index_name_offset2id", "_client", "_offset2ids"}

\* an instance: the config object it holds, the index created for it, the
\* names of its attributes, and what _persist would hold were it set
EcNoInst == [state |-> "none", config |-> 0, own |-> <<>>, attrs |-> {}, persist |-> FALSE]
EcNoCall == [op |-> "init", inst |-> 0, raised |-> "none", lens |-> <<>>,
             registry |-> {}, indices |-> {}]

EcStart ==
    /\ ec_config = [c \in EcInstances |-> <<>>]
    /\ ec_inst = [i \in EcInstances |-> EcNoInst]
    /\ ec_index = [n \in {} |-> 0]
    /\ ec_registry = {}
    /\ ec_last = EcNoCall

\* self._config.index_name: read through the config object the instance holds
index_name_of(inst, config) == config[inst.config]

\* __len__, seqlike.py lines 25-30: count(index=self._config.index_name)
elastic_len(inst, config, index) ==
    IF inst.state = "live" THEN index[index_name_of(inst, config)] ELSE 0

\* len() of every instance
EcLens == [i \in EcInstances |-> elastic_len(ec_inst[i], ec_config, ec_index)]

EcCall(op, i, raised) ==
    [op |-> op, inst |-> i, raised |-> raised, lens |-> EcLens,
     registry |-> ec_registry, indices |-> DOMAIN ec_index]

\* _init_storage, backend.py lines 57-89, of the next instance with config
\* object c and no documents: the uuid is appended to the index_name of the
\* config object passed in (line 70), and _build_client creates the index of
\* that name, empty (lines 117-125).  The offset2id index, named by the uuid
\* alone (line 73), is the instance's own and holds no document.
EcInitStorage ==
    \E i \in EcInstances, c \in EcInstances :
        /\ backend = "elastic_inst"
        /\ ec_inst[i].state = "none"
        /\ \A j \in 1..(i - 1) : ec_inst[j].state # "none"
        /\ c = i \/ (c < i /\ ec_inst[c].config = c)
        /\ ec_config' = [ec_config EXCEPT ![c] = Append(@, i)]
        /\ ec_inst' = [ec_inst EXCEPT ![i] = [state |-> "live", config |-> c,
                                              own |-> Append(ec_config[c], i),
                                              attrs |-> ElasticAttrs, persist |-> FALSE]]
        /\ ec_index' = [n \in DOMAIN ec_index \cup {Append(ec_config[c], i)} |->
                          IF n = Append(ec_config[c], i) THEN 0 ELSE ec_index[n]]
        /\ ec_last' = EcCall("init_storage", i, "none")
        /\ UNCHANGED ec_registry

\* extend, seqlike.py lines 65-87, with one document of a new id: the request
\* names the index self._config.index_name, and the index is refreshed
EcExtend ==
    \E i \in EcInstances :
        /\ backend = "elastic_inst"
        /\ ec_inst[i].state = "live"
        /\ ec_index[index_name_of(ec_inst[i], ec_config)] < MaxCount
        /\ ec_index' = [ec_index EXCEPT ![index_name_of(ec_inst[i], ec_config)] = @ + 1]
        /\ ec_last' = EcCall("extend", i, "none")
        /\ UNCHANGED <<ec_config, ec_inst, ec_registry>>

\* __del__, seqlike.py lines 48-57: [raised, deleted, registry].  The test of
\* line 52 reads self._persist, and line 53 self._class_name.
elastic_del(i, inst, registry) ==
    IF "_persist" \notin inst.attrs \/ "_class_name" \notin inst.attrs
    THEN [raised |-> "AttributeError", deleted |-> FALSE, registry |-> registry]
    ELSE IF i \notin registry
    THEN [raised |-> "ValueError", deleted |-> ~inst.persist /\ Cardinality(registry) = 1,
          registry |-> registry]
    ELSE [raised |-> "none", deleted |-> ~inst.persist /\ Cardinality(registry) = 1,
          registry |-> registry \ {i}]

\* the instance is destroyed; an exception of __del__ is reported and lost
EcDel ==
    \E i \in EcInstances :
        /\ backend = "elastic_inst"
        /\ ec_inst[i].state = "live"
        /\ LET r == elastic_del(i, ec_inst[i], ec_registry)
           IN  /\ ec_registry' = r.registry
               /\ ec_index' = IF r.deleted
                              THEN [n \in DOMAIN ec_index \ {index_name_of(ec_inst[i], ec_config)}
                                      |-> ec_index[n]]
                              ELSE ec_index
               /\ ec_last' = EcCall("del", i, r.raised)
        /\ ec_inst' = [ec_inst EXCEPT ![i].state = "dead"]
        /\ UNCHANGED ec_config

NextElasticInstances ==
    /\ EcInitStorage \/ EcExtend \/ EcDel
    /\ UNCHANGED <<backend, es_vars, q_vars, da_vars, em_vars, r_vars, c_vars>>

(***************************************************************************)
(* Specifications                                                          *)
(***************************************************************************)
Backends == {"elastic", "qdrant", "memory", "elastic_meta", "redis", "redis_meta", "column",
             "elastic_inst"}

Init ==
    /\ backend \in Backends
    /\ EsStart
    /\ QStart
    /\ \/ backend # "memory" /\ DaEmpty
       \/ backend = "memory" /\ DaStart
    /\ EmStart
    /\ RStart
    /\ CStart
    /\ EcStart

InitElastic == Init /\ backend = "elastic"
InitQdrant == Init /\ backend = "qdrant"
InitStorage == Init /\ backend \in {"elastic", "qdrant"}
InitMemory == Init /\ backend = "memory"
InitElasticMeta == Init /\ backend = "elastic_meta"
InitRedis == Init /\ backend = "redis"
InitRedisMeta == Init /\ backend = "redis_meta"
InitColumn == Init /\ backend = "column"
InitElasticInstances == Init /\ backend = "elastic_inst"

Next ==
    \/ NextElastic \/ NextQdrant \/ DaSetItem \/ DaSetPair \/ DaSetAttr \/ DaReturn
    \/ NextElasticMeta \/ NextRedis \/ NextRedisMeta \/ DaSetList
    \/ QScanAgain \/ QGetDocById
    \/ NextColumn \/ DaSetAttrList \/ DaSetStr \/ QContains
    \/ NextElasticInstances
NextStorage == NextElastic \/ NextQdrant

\* a collection on any backend
Spec == Init /\ [][Next]_vars
\* a collection on the Elastic backend
SpecElastic == InitElastic /\ [][NextElastic]_vars
\* a collection on the Qdrant backend
SpecQdrant == InitQdrant /\ [][NextQdrant]_vars
\* a collection on one of the two remote backends
SpecStorage == InitStorage /\ [][NextStorage]_vars
\* a collection set through indices that select documents
SpecSetItem == InitMemory /\ [][NextSetItem]_vars
\* a collection set through pairs of an offset or id and a second component
SpecSetPair == InitMemory /\ [][NextSetPair]_vars
\* a collection whose documents' attributes are set through a selector
SpecSetAttr == InitMemory /\ [][NextSetAttr]_vars
\* a collection set through lists of offsets and ids
SpecSetList == InitMemory /\ [][NextSetList]_vars
\* an Elastic collection that persists and loads its Offset2ID table
SpecElasticMeta == InitElasticMeta /\ [][NextElasticMeta]_vars
\* a Qdrant collection that is scanned: a scan that has begun goes on (the
\* generator is consumed by its caller's for loop)
SpecQdrantScan == InitQdrant /\ [][NextQdrantScan]_vars /\ WF_vars(QScanPage)
\* a Qdrant collection whose documents are read by id
SpecQdrantGet == InitQdrant /\ [][NextQdrantGet]_vars
\* a Redis collection whose documents are set, got and deleted by id
SpecRedis == InitRedis /\ [][NextRedis]_vars
\* a Redis collection that saves and loads its Offset2ID table
SpecRedisMeta == InitRedisMeta /\ [][NextRedisMeta]_vars
\* a Qdrant collection that is asked whether it holds a document
SpecQdrantContains == InitQdrant /\ [][NextQdrantContains]_vars
\* a collection whose documents have two attributes set at once
SpecSetAttrList == InitMemory /\ [][NextSetAttrList]_vars
\* a collection set through str indices
SpecSetStr == InitMemory /\ [][NextSetStr]_vars
\* Elastic collections that are constructed, extended and destroyed
SpecElasticInstances == InitElasticInstances /\ [][NextElasticInstances]_vars
\* a collection whose array columns are set through a selection
SpecColumn == InitColumn /\ [][NextColumn]_vars

(***************************************************************************)
(* Claims                                                                  *)
(***************************************************************************)

\* C1: after any sequence of extend calls on an Elastic-backed collection
\* (a passed id may already be stored, or occur twice in one call), the
\* Offset2ID table is as long as len(), the document count of the index,
\* and holds no identifier twice.  Stated for the runs in which no bulk
\* write has raised.
C1_ElasticTableMatchesLen ==
    (backend = "elastic" /\ ~es_bulk_failed) =>
        /\ Len(es_offset2ids) = es_len
        /\ NoDuplicates(es_offset2ids)

\* C2: on the Qdrant backend, da[k] = d for a valid offset k (0 <= k < len
\* or -len <= k <= -1) returns normally, and the read at offset k then
\* returns d.
C2_QdrantSetByOffsetThenGet ==
    (/\ backend = "qdrant"
     /\ q_last.op = "setitem_offset"
     /\ q_last.offset >= 0 - q_len(q_last.before)
     /\ q_last.offset < q_len(q_last.before)) =>
        /\ q_last.raised = "none"
        /\ qdrant_get_doc_by_offset(q_points, q_last.offset).raised = "none"
        /\ qdrant_get_doc_by_offset(q_points, q_last.offset).doc = q_last.value

\* C3: on the Qdrant backend, once _set_doc_by_id(id, d) has returned,
\* _get_doc_by_id(d.id) returns d, and if d.id # id no point is stored under
\* the old id.
C3_QdrantSetByIdThenGet ==
    (backend = "qdrant" /\ q_last.op = "set_doc_by_id" /\ q_last.raised = "none") =>
        /\ qdrant_get_doc_by_id(get_point(q_points, q_last.value.id)) =
               [raised |-> "none", returned |-> "Document", doc |-> q_last.value]
        /\ q_last.value.id # q_last.id =>
               get_point(q_points, q_last.id).status = 404

\* C3 witness: a set that moved a stored document to another id has returned
C3_Witness ==
    /\ backend = "qdrant"
    /\ q_last.op = "set_doc_by_id"
    /\ q_last.raised = "none"
    /\ q_last.value.id # q_last.id
    /\ q_last.id \in DOMAIN q_last.before
    /\ q_last.value.id \in DOMAIN q_points

\* the ids of a sequence of documents
IdsOf(docs) == [i \in 1..Len(docs) |-> docs[i].id]

DaAfter == [ids |-> da_ids, docs |-> da_docs]
DaCalled == da_last.raised # "init"
DaUnmodified == DaAfter = da_before

IsBoolList(x) == x.t = "list" /\ \A i \in 1..Len(x.v) : x.v[i].t = "bool"
IsPair(x) == x.t = "tuple" /\ Len(x.v) = 2
IsDocList(x) == x.t = "list" /\ \A i \in 1..Len(x.v) : x.v[i].t = "doc"
IsStrList(x) == x.t = "list" /\ \A i \in 1..Len(x.v) : x.v[i].t = "str"
IsKeyList(x) ==
    x.t = "list" /\ x.v # <<>> /\ \A i \in 1..Len(x.v) : x.v[i].t \in {"int", "str"}

\* the positions (1-based) at which a mask is True
TruePositions(mask) == SelectSeq([i \in 1..Len(mask) |-> i], LAMBDA i : mask[i].v)

\* a collection as the constructor leaves it: no id twice in the table, and
\* exactly the table's ids stored
WellFormed(S) == NoDuplicates(S.ids) /\ DOMAIN S.docs = Range(S.ids)

\* C5: for a boolean mask as long as the collection and one value per True
\* position (each value keeping the id of the document it replaces),
\* da[mask] = vals returns, the documents at the True positions are the
\* values in order, the documents at the False positions are unchanged, and
\* the length is unchanged.
C5_MaskSetsTruePositions ==
    LET mask == da_last.index.v
        vals == da_last.value.v
        pos == TruePositions(mask)
    IN  (/\ DaCalled
         /\ WellFormed(da_before)
         /\ IsBoolList(da_last.index)
         /\ Len(mask) = da_len(da_before)
         /\ IsDocList(da_last.value)
         /\ Len(vals) = Len(pos)
         /\ \A j \in 1..Len(pos) : vals[j].v.id = da_before.ids[pos[j]]) =>
            /\ da_last.raised = "none"
            /\ Len(da_ids) = da_len(da_before)
            /\ \A j \in 1..Len(pos) :
                   get_by_offset(DaAfter, pos[j] - 1) = [raised |-> "none", doc |-> vals[j].v]
            /\ \A i \in 1..Len(mask) :
                   ~mask[i].v =>
                       get_by_offset(DaAfter, i - 1) = get_by_offset(da_before, i - 1)

\* C6: for a boolean mask (the empty one included) whose length differs from
\* the collection's, da[mask] = v fails with the mask-length IndexError and
\* the collection is unmodified.
C6_MaskLengthMismatchFails ==
    (/\ DaCalled
     /\ IsBoolList(da_last.index)
     /\ Len(da_last.index.v) # da_len(da_before)) =>
        /\ da_last.raised = "IndexError_mask_length"
        /\ DaUnmodified

SelOffsets(S, sel) ==
    IF sel.t = "slice" THEN slice_offsets(S, sel)
    ELSE [i \in 1..Len(sel.v) |->
             IF sel.v[i].t = "int" THEN NormOffset(S, sel.v[i].v)
             ELSE offset_of(S, sel.v[i].v) - 1]

\* da[sel, attr] = vals was called with a list or slice selector that
\* selects stored documents, attr 'text' or 'id', and one str per selected
\* document
SetAttrCase ==
    /\ DaCalled
    /\ WellFormed(da_before)
    /\ IsPair(da_last.index)
    /\ da_last.index.v[1].t = "slice" \/ IsKeyList(da_last.index.v[1])
    /\ da_last.index.v[2] \in {PyStr("text"), PyStr("id")}
    /\ getitem_many(da_before, da_last.index.v[1]).raised = "none"
    /\ IsStrList(da_last.value)
    /\ Len(da_last.value.v) = Len(getitem_many(da_before, da_last.index.v[1]).docs)

\* what C8 promises of the call
SetAttrEffect ==
    LET offs == SelOffsets(da_before, da_last.index.v[1])
        attr == da_last.index.v[2].v
        vals == da_last.value.v
    IN  /\ da_last.raised = "none"
        /\ Len(da_ids) = da_len(da_before)
        /\ \A i \in 1..Len(offs) :
               /\ get_by_offset(DaAfter, offs[i]).raised = "none"
               /\ get_by_offset(DaAfter, offs[i]).doc =
                      [get_by_offset(da_before, offs[i]).doc EXCEPT ![attr] = vals[i].v]
               /\ attr = "id" => da_ids[offs[i] + 1] = vals[i].v
        /\ \A o \in 0..(da_len(da_before) - 1) :
               o \notin Range(offs) =>
                   /\ da_ids[o + 1] = da_before.ids[o + 1]
                   /\ get_by_offset(DaAfter, o) = get_by_offset(da_before, o)

\* C8 as stated: after da[sel, attr] = vals with one value per selected
\* document, the i-th selected document has attr equal to vals[i], the
\* other documents are unchanged, and for 'id' the table holds the new ids
\* at the same offsets.
C8_SetAttrReadsBack == SetAttrCase => SetAttrEffect

\* C8, amended: the same, when the selector names no document twice and,
\* for attr 'id', the new ids are pairwise distinct and each is either the
\* document's own id or the id of no stored document.
C8_SetAttrOfDistinctReadsBack ==
    LET offs == SelOffsets(da_before, da_last.index.v[1])
        vals == da_last.value.v
    IN  (/\ SetAttrCase
         /\ NoDuplicates(offs)
         /\ da_last.index.v[2].v = "id" =>
                /\ NoDuplicates(vals)
                /\ \A i \in 1..Len(vals) :
                       \/ vals[i].v = da_before.ids[offs[i] + 1]
                       \/ ~exists(da_before, vals[i].v)) =>
            SetAttrEffect

\* da[[1, 0], 'id'] = [new1, new0] with two distinct ids that are not stored
\* was called on a collection of two documents, and returned
C8_Witness ==
    /\ SetAttrCase
    /\ da_last.index = PyTuple(<<PyList(<<PyInt(1), PyInt(0)>>), PyStr("id")>>)
    /\ da_len(da_before) = 2
    /\ Len(da_last.value.v) = 2
    /\ da_last.value.v[1] # da_last.value.v[2]
    /\ \A i \in 1..2 : ~exists(da_before, da_last.value.v[i].v)
    /\ da_last.raised = "none"

\* C9: a set whose value list has another length than the number of
\* selected elements (a list of offsets or ids, or a list or slice selector
\* with an attribute) fails with the length-mismatch ValueError and the
\* collection is unmodified.
C9_LengthMismatchFails ==
    /\ (/\ DaCalled
        /\ WellFormed(da_before)
        /\ IsKeyList(da_last.index)
        /\ GetEach(da_before, da_last.index.v).raised = "none"
        /\ IsDocList(da_last.value)
        /\ Len(da_last.value.v) # Len(da_last.index.v)) =>
           /\ da_last.raised = "ValueError_length_mismatch"
           /\ DaUnmodified
    /\ (/\ DaCalled
        /\ WellFormed(da_before)
        /\ IsPair(da_last.index)
        /\ da_last.index.v[1].t = "slice" \/ IsKeyList(da_last.index.v[1])
        /\ da_last.index.v[2] \in {PyStr("text"), PyStr("id")}
        /\ getitem_many(da_before, da_last.index.v[1]).raised = "none"
        /\ IsStrList(da_last.value)
        /\ Len(da_last.value.v) # Len(getitem_many(da_before, da_last.index.v[1]).docs)) =>
           /\ da_last.raised = "ValueError_length_mismatch"
           /\ DaUnmodified

\* an index of none of the shapes __setitem__ recognises
Unrecognised(index) ==
    \/ index.t \in {"float", "none", "bool"}
    \/ /\ index.t \in {"list", "tuple"}
       /\ ~IsPair(index)
       /\ index.v # <<>>
       /\ index.v[1].t \notin {"bool", "int", "str"}

\* C10: a set through an index of no recognised shape fails with the
\* IndexError naming the index's type and the collection is unmodified; it
\* never returns normally.
C10_ClassificationIsTotal ==
    (DaCalled /\ Unrecognised(da_last.index)) =>
        /\ da_last.raised = "IndexError_unsupported_index_type"
        /\ DaUnmodified

(***************************************************************************)
(* Claims about persisted Offset2ID tables and the Redis backend           *)
(***************************************************************************)
\* C11: when the table was persisted, the index refreshed and the table not
\* changed since, loading returns exactly the in-memory id sequence -
\* whatever appends and removals came before the persist.
C11_ElasticLoadAfterPersist ==
    (backend = "elastic_meta" /\ em_sync = "refreshed" /\ em_last.op = "load") =>
        /\ em_last.raised = "none"
        /\ em_last.ids = em_ids

\* C12: a table loaded while it is as it was saved equals the saved table
\* (same ids, same order, same length); after an empty table was saved the
\* load gives the empty table.
C12_RedisSaveThenLoad ==
    (backend = "redis_meta" /\ rm_last = "load") => r_offset2ids = r_saved

\* C13: get_by_id(id) returns the document stored under id and raises
\* KeyError when there is none; it never returns without a document.
C13_RedisGetById ==
    (backend = "redis" /\ r_last.op = "get_doc_by_id") =>
        IF r_doc_exists(r_config, r_docs, r_last.id)
        THEN /\ r_last.raised = "none"
             /\ r_last.returned = r_from_base64(r_docs[r_doc_key(r_config, r_last.id)].blob)
        ELSE r_last.raised = "KeyError"

\* C14: after set_by_id(id, d) with d.id # id the payload of d is stored
\* under the key of d.id and nothing is stored under the key of id.
C14_RedisSetByIdMovesKey ==
    (backend = "redis" /\ r_last.op = "set_doc_by_id" /\ r_last.value.id # r_last.id) =>
        /\ r_last.raised = "none"
        /\ r_doc_exists(r_config, r_docs, r_last.value.id)
        /\ r_docs[r_doc_key(r_config, r_last.value.id)] = document_to_redis(r_last.value)
        /\ ~r_doc_exists(r_config, r_docs, r_last.id)

\* C15: after delete_by_id(id) for a stored id the id no longer exists in
\* the store and len() is one less.
C15_RedisDeleteById ==
    (backend = "redis" /\ r_last.op = "del_doc_by_id"
        /\ r_doc_exists(r_config, r_last.before, r_last.id)) =>
        /\ r_last.raised = "none"
        /\ ~r_doc_exists(r_config, r_docs, r_last.id)
        /\ r_len(r_docs) = r_len(r_last.before) - 1

(***************************************************************************)
(* Claims about Qdrant's scan and reads                                     *)
(***************************************************************************)
\* the documents stored in the collection
QStored == {qdrant_to_document(q_points[i]) : i \in DOMAIN q_points}

C17_QdrantGetByIdFailures ==
    (backend = "qdrant" /\ q_last.op = "get_doc_by_id") =>
        /\ q_last.status = 200 =>
              /\ q_last.raised = "none"
              /\ q_last.returned = "Document"
              /\ q_last.id \in DOMAIN q_points
        /\ q_last.status = 404 => q_last.raised = "KeyError"
        /\ q_last.status \notin {200, 404} => q_last.raised = "UnexpectedResponse"
        /\ q_last.raised = "none" => q_last.returned = "Document"

(***************************************************************************)
(* Claims about list indices and (id, str) pairs                            *)
(***************************************************************************)
\* the collection after the first k assignments of da[indices] = values,
\* each made as an assignment of its own
RECURSIVE AfterFirst(_, _, _, _)
AfterFirst(S, indices, values, k) ==
    IF k = 0 THEN S
    ELSE StateOf(__setitem__(AfterFirst(S, indices, values, k - 1), indices[k], values[k]))

\* the table position (1-based) an offset or id names in S
ListPos(S, key) ==
    IF key.t = "int" THEN NormOffset(S, key.v) + 1 ELSE offset_of(S, key.v)

\* the call was da[[i1, .., in]] = [v1, .., vn] and it raised
ListSetFailed ==
    /\ backend = "memory"
    /\ DaCalled
    /\ IsKeyList(da_last.index)
    /\ da_last.value.t = "list"
    /\ da_last.raised # "none"

\* C18: when da[[i1, .., in]] = [v1, .., vn] fails, it fails at an element
\* ij with the error of that element's own assignment; the assignments
\* before ij were made (the collection is exactly what they leave: the last
\* of them holds its new value) and no assignment from ij on was: the table
\* has its length, and every position not named by i1..i(j-1) its id.
C18_ListSetIsNotTransactional ==
    ListSetFailed =>
        \E j \in 1..Len(da_last.index.v) :
            LET I == da_last.index.v
                V == da_last.value.v
                At(k) == AfterFirst(da_before, I, V, k)
                Written == {ListPos(At(m - 1), I[m]) : m \in 1..(j - 1)}
            IN  /\ j <= Len(V)
                /\ \A m \in 1..(j - 1) : __setitem__(At(m - 1), I[m], V[m]).raised = "none"
                /\ __setitem__(At(j - 1), I[j], V[j]).raised = da_last.raised
                /\ DaAfter = At(j - 1)
                /\ Len(da_ids) = Len(da_before.ids)
                /\ \A p \in 1..Len(da_ids) : p \notin Written => da_ids[p] = da_before.ids[p]
                /\ j > 1 =>
                      da_docs[da_ids[ListPos(At(j - 2), I[j - 1])]] = V[j - 1].v

\* C18 witness: the first element was set to a new value and the second
\* failed
C18_Witness ==
    /\ ListSetFailed
    /\ Len(da_last.index.v) = 2
    /\ Len(da_last.value.v) = 2
    /\ __setitem__(da_before, da_last.index.v[1], da_last.value.v[1]).raised = "none"
    /\ DaAfter # da_before
    /\ DaAfter = AfterFirst(da_before, da_last.index.v, da_last.value.v, 1)

\* the outcome of the last call: the collection it left and what it raised
DaOutcome == [ids |-> da_ids, docs |-> da_docs, raised |-> da_last.raised]

\* the call was da[id1, s] = v with id1 a stored id and s a str
IdStrCase ==
    /\ backend = "memory"
    /\ DaCalled
    /\ WellFormed(da_before)
    /\ IsPair(da_last.index)
    /\ da_last.index.v[1].t = "str"
    /\ exists(da_before, da_last.index.v[1].v)
    /\ da_last.index.v[2].t = "str"

\* C19: da[id1, s] = v, id1 stored and s a str: if s is a stored id the two
\* documents id1 and s are set from v (also when s names an attribute);
\* else if s names an attribute that attribute of document id1 is set to v;
\* else if every element of s names an attribute (of a str: only the empty
\* one) those attributes are set; else ValueError, nothing modified.
C19_IdThenStrOrder ==
    IdStrCase =>
        LET id1 == da_last.index.v[1]
            s == da_last.index.v[2].v
            v == da_last.value
            both == [raised |-> "none",
                     docs |-> <<da_before.docs[id1.v], da_before.docs[s]>>]
        IN  IF exists(da_before, s)
            THEN DaOutcome = _set_doc_value_pairs(da_before, both, v)
            ELSE IF s \in DocAttributes
            THEN DaOutcome = _set_doc_attr_by_id(da_before, id1, s, v)
            ELSE IF \A i \in 1..Len(StrChars(s)) : StrChars(s)[i].v \in DocAttributes
            THEN DaOutcome = Ok(da_before)
            ELSE da_last.raised = "ValueError_not_id_or_attribute" /\ DaUnmodified

\* C19 witness: da[id1, 'text'] = [d, e] with a document of id 'text'
\* stored: both documents were set, not the text of document id1
C19_Witness ==
    /\ IdStrCase
    /\ da_last.index.v[2].v = "text"
    /\ exists(da_before, "text")
    /\ da_last.index.v[1].v # "text"
    /\ IsDocList(da_last.value)
    /\ da_last.raised = "none"
    /\ DaAfter # da_before

(***************************************************************************)
(* Claim about an Elastic extend whose bulk write raises                    *)
(***************************************************************************)
\* C20: after an extend whose bulk write raised, the table is as before the
\* call (empty, when the collection was empty before), and at no time does
\* the table hold an id whose payload was not written to the index.
C20_ExtendFailureLeavesTable ==
    backend = "elastic" =>
        /\ (es_last.op = "extend" /\ ~es_last.ok /\ es_last.from_empty) =>
              es_offset2ids = <<>>
        /\ Range(es_offset2ids) \subseteq DOMAIN es_index

(***************************************************************************)
(* Claims about attributes set through an offset, lists and arrays          *)
(***************************************************************************)
\* the call was da[k, attr] = x with k a valid offset, attr the name of the
\* attribute 'text' and x a str
OffsetAttrCase ==
    /\ backend = "memory"
    /\ DaCalled
    /\ WellFormed(da_before)
    /\ IsPair(da_last.index)
    /\ da_last.index.v[1].t = "int"
    /\ ValidOffset(da_before, da_last.index.v[1].v)
    /\ da_last.index.v[2] = PyStr("text")
    /\ ~exists(da_before, "text")
    /\ da_last.value.t = "str"

\* C21: da[k, attr] = x sets attribute attr of the document at offset k to
\* x - the document is found by its position - and changes no other
\* document.
C21_OffsetThenAttribute ==
    OffsetAttrCase =>
        LET k == da_last.index.v[1].v
            id == id_at(da_before, k)
        IN  /\ da_last.raised = "none"
            /\ da_ids = da_before.ids
            /\ da_docs = [j \in DOMAIN da_before.docs |->
                            IF j = id THEN [da_before.docs[j] EXCEPT !.text = da_last.value.v]
                            ELSE da_before.docs[j]]

\* da[i1] = v1; ..; da[in] = vn, one statement after the other (a statement
\* that raises ends the sequence)
RECURSIVE OneByOne(_, _, _)
OneByOne(S, indices, values) ==
    IF indices = <<>> THEN Ok(S)
    ELSE LET r == __setitem__(S, Head(indices), Head(values))
         IN  IF r.raised # "none" THEN r
             ELSE OneByOne(StateOf(r), Tail(indices), Tail(values))

\* the call was da[[i1, .., in]] = value
ListSetCase ==
    /\ backend = "memory"
    /\ DaCalled
    /\ IsKeyList(da_last.index)

\* C22: da[[i1, .., in]] = [v1, .., vn] leaves the collection as da[i1] = v1;
\* ..; da[in] = vn does, in that order; with a value that is a str or no
\* sequence every element is set to that value.
C22_ListSetIsOneByOne ==
    ListSetCase =>
        LET I == da_last.index.v
            x == da_last.value
        IN  /\ (x.t = "list" /\ Len(x.v) = Len(I)) => DaOutcome = OneByOne(da_before, I, x.v)
            /\ (x.t \in {"str", "doc"}) =>
                  DaOutcome = OneByOne(da_before, I, [i \in 1..Len(I) |-> x])

\* C22 witness: an offset named twice was set from two documents and holds
\* the second
C22_Witness ==
    /\ ListSetCase
    /\ da_last.index = PyList(<<PyInt(1), PyInt(1)>>)
    /\ IsDocList(da_last.value)
    /\ Len(da_last.value.v) = 2
    /\ da_last.value.v[1] # da_last.value.v[2]
    /\ da_last.raised = "none"
    /\ get_by_offset(DaAfter, 1).doc = da_last.value.v[2].v

\* the call was da[arr] = value with arr an array of offsets
ArrayCase ==
    /\ backend = "memory"
    /\ DaCalled
    /\ da_last.index.t = "ndarray"

\* C23: an array index of one dimension, of any length >= 1, sets what the
\* list of its elements sets; an array that keeps more than one dimension
\* once the dimensions of size 1 are dropped fails with IndexError and
\* modifies nothing.
C23_ArrayIsListOfElements ==
    ArrayCase =>
        LET arr == da_last.index
        IN  /\ Len(arr.shape) = 1 =>
                DaOutcome = __setitem__(da_before, PyList(arr.flat), da_last.value)
            /\ Len(squeeze(arr.shape)) > 1 =>
                /\ da_last.raised = "IndexError_ndim"
                /\ DaUnmodified

\* every selected document holds its row of the column
ColumnWritten ==
    IF c_call.value.t = "none"
    THEN \A i \in 1..Len(c_docs) : c_docs[i][c_call.attr] = None
    ELSE /\ Len(c_call.value.v) = Len(c_docs)
         /\ \A i \in 1..Len(c_docs) : c_docs[i][c_call.attr] = c_call.value.v[i].v

\* the rows given do not match the documents selected
ColumnMismatch ==
    /\ c_call.raised # "init"
    /\ c_call.value.t = "list"
    /\ Len(c_call.value.v) # Len(c_call.index)
    /\ c_call.index # <<>>

\* what holds in every state of da[sel, attr] = vals
ColumnThenPersist ==
    backend = "column" =>
        /\ Len(c_log) <= Len(c_docs)
        /\ c_log = [i \in 1..Len(c_log) |-> c_docs[i].id]
        /\ c_pc = "done" => Len(c_log) = Len(c_docs)
        /\ c_log # <<>> => ColumnWritten
        /\ c_pc \in {"column", "failed"} => c_log = <<>>
        /\ (ColumnMismatch /\ c_pc # "column") =>
              c_pc = "failed" /\ c_call.raised = "ValueError_length_mismatch"

\* what every step of it does: the backend changes only by the write of the
\* next selected document under its id
PersistNext ==
    (c_store' # c_store \/ (c_log' # c_log /\ c_log' # <<>>)) =>
        /\ c_pc = "persist"
        /\ ColumnWritten
        /\ c_log' = Append(c_log, c_docs[Len(c_log) + 1].id)
        /\ c_store' = [c_store EXCEPT ![c_docs[Len(c_log) + 1].id] = c_docs[Len(c_log) + 1]]

\* C24: for 'embedding' or 'tensor', da[sel, attr] = vals writes the whole
\* column on the selected documents in one step and only then writes each
\* selected document to the backend under its id, once per element of the
\* selection and in its order; when the column write fails (rows and
\* documents differ in number: ValueError) no document is written.
C24_ColumnBeforePersist == [](ColumnThenPersist) /\ [][PersistNext]_vars

\* C24 witness: a call on two different documents has ended, both written
C24_Witness ==
    /\ backend = "column"
    /\ c_pc = "done"
    /\ Len(c_log) = 2
    /\ c_log[1] # c_log[2]
    /\ c_store[c_log[1]][c_call.attr] # c_store[c_log[2]][c_call.attr]

\* the call was da[sel, ['text', 'id']] = value with sel selecting stored
\* documents, none twice, and value a list of two elements
AttrListCase ==
    /\ backend = "memory"
    /\ DaCalled
    /\ WellFormed(da_before)
    /\ IsPair(da_last.index)
    /\ da_last.index.v[1].t = "slice" \/ IsKeyList(da_last.index.v[1])
    /\ da_last.index.v[2] = PyList(<<PyStr("text"), PyStr("id")>>)
    /\ getitem_many(da_before, da_last.index.v[1]).raised = "none"
    /\ getitem_many(da_before, da_last.index.v[1]).docs # <<>>
    /\ NoDuplicates(SelOffsets(da_before, da_last.index.v[1]))
    /\ da_last.value.t = "list"
    /\ Len(da_last.value.v) = 2

\* the ids are new to the collection or the documents' own
FreshIds(offs, ids) ==
    /\ NoDuplicates(ids)
    /\ \A i \in 1..Len(ids) :
           ~exists(da_before, ids[i].v) \/ id_at(da_before, offs[i]) = ids[i].v

\* a flat value [x1, x2] on one selected document: its text is x1, its id x2
FlatPerAttribute ==
    LET offs == SelOffsets(da_before, da_last.index.v[1])
        x == da_last.value.v
    IN  (IsStrList(da_last.value) /\ Len(offs) = 1 /\ FreshIds(offs, <<x[2]>>)) =>
            /\ da_last.raised = "none"
            /\ da_ids[offs[1] + 1] = x[2].v
            /\ get_by_offset(DaAfter, offs[1]).doc =
                   [get_by_offset(da_before, offs[1]).doc EXCEPT !.text = x[1].v, !.id = x[2].v]

\* a nested value [[x1, ..], [i1, ..]], one entry per selected document: the
\* k-th selected document has text xk and id ik
NestedPerDocument ==
    LET offs == SelOffsets(da_before, da_last.index.v[1])
        x == da_last.value.v
    IN  (/\ IsStrList(x[1]) /\ IsStrList(x[2])
         /\ Len(x[1].v) = Len(offs) /\ Len(x[2].v) = Len(offs)
         /\ FreshIds(offs, x[2].v)) =>
            /\ da_last.raised = "none"
            /\ \A k \in 1..Len(offs) :
                   /\ da_ids[offs[k] + 1] = x[2].v[k].v
                   /\ get_by_offset(DaAfter, offs[k]).doc =
                          [get_by_offset(da_before, offs[k]).doc
                              EXCEPT !.text = x[1].v[k].v, !.id = x[2].v[k].v]

\* C25: in da[sel, [a1, .., am]] = value a flat list gives attribute a_j the
\* value x_j, a nested list gives attribute a_j its per-document values; in
\* both cases every one of the m attributes is written.
C25_ValueShapeByNesting == AttrListCase => (FlatPerAttribute /\ NestedPerDocument)

(***************************************************************************)
(* Claims about str indices, membership and the life of remote resources    *)
(***************************************************************************)
\* the call was da[s] = value with s a str
StrCase ==
    /\ backend = "memory"
    /\ DaCalled
    /\ da_last.index.t = "str"

\* C26: a str index is set by id exactly when it does not begin with '@'; a
\* str that begins with '@' is a traversal path whose documents are set by
\* value pairs, also when a document with that very id is stored.
C26_AtIsNeverAnId ==
    StrCase =>
        LET s == da_last.index.v
        IN  IF startswith_at(s)
            THEN DaOutcome = _set_doc_value_pairs(
                                 da_before, traverse_flat(da_before, strip_at(s)), da_last.value)
            ELSE DaOutcome = _set_doc_by_id(da_before, s, da_last.value)

\* C26 witness: a document with the id '@r' is stored and da['@r'] = [..]
\* has set the documents of the traversal
C26_Witness ==
    /\ StrCase
    /\ da_last.index = PyStr("@r")
    /\ exists(da_before, "@r")
    /\ da_last.raised = "none"
    /\ ~DaUnmodified
    /\ DaOutcome # _set_doc_by_id(da_before, "@r", da_last.value)

\* C27: on Qdrant, x in da for a str id or a Document is true exactly when a
\* document with that id is stored - a failure of the store other than
\* not-found never makes it true - and it is false for x of any other type.
C27_QdrantContains ==
    (backend = "qdrant" /\ q_last.op = "contains") =>
        LET x == q_last.x
        IN  IF x.t = "str" THEN q_last.returned = (x.v \in DOMAIN q_last.before)
            ELSE IF x.t = "doc" THEN q_last.returned = (x.v.id \in DOMAIN q_last.before)
            ELSE q_last.returned = FALSE

\* C28: destroying Elastic instances that share a remote resource, in any
\* order, removes exactly the destroyed instance from the registry, and
\* deletes the resource only with the last registered instance and only if
\* it is not persistent.
C28_LastInstanceDeletes ==
    (backend = "elastic_inst" /\ ec_last.op = "del") =>
        /\ ec_last.raised = "none"
        /\ ec_registry = ec_last.registry \ {ec_last.inst}
        /\ DOMAIN ec_index # ec_last.indices =>
              /\ ec_last.registry = {ec_last.inst}
              /\ ~ec_inst[ec_last.inst].persist

\* C29: Elastic collections constructed one after the other, also from the
\* same config object, keep each its own index name: len() and extend of an
\* instance go to the index created for it, and extending one never changes
\* len() of another.
C29_InstancesAreIsolated ==
    backend = "elastic_inst" =>
        /\ \A i \in EcInstances :
               ec_inst[i].state = "live" =>
                   index_name_of(ec_inst[i], ec_config) = ec_inst[i].own
        /\ ec_last.op = "extend" =>
               \A j \in EcInstances \ {ec_last.inst} : EcLens[j] = ec_last.lens[j]

\* C30: when Qdrant's set_by_id(id, d) with d.id # id raises while writing d,
\* the store is as before the call: the document stored under id is still
\* stored.
C30_FailedSetKeepsOld ==
    (/\ backend = "qdrant"
     /\ q_last.op = "set_doc_by_id"
     /\ q_last.raised # "none"
     /\ q_last.id # q_last.value.id
     /\ q_last.id \in DOMAIN q_last.before) =>
        /\ q_points = q_last.before
        /\ q_last.id \in DOMAIN q_points

====
